---- MODULE Spec2Model ----
(***************************************************************************)
(* Greybus operation layer (src/operation.c) over the es1 host transport   *)
(* (the es1 driver text in src/svc.h).                                      *)
(*                                                                         *)
(* One connection, NumOps outgoing operations.  Every execution context of *)
(* the code is a small program counter:                                    *)
(*   pc[o]   the caller's gb_operation_request_send(o)                      *)
(*   urb[o]  the transport's out-URB for o's request and its completion     *)
(*           callback (cport_out_callback -> greybus_message_sent)          *)
(*   rpc     the receive context (gb_connection_recv)                       *)
(*   wpc[o]  the completion workqueue running gb_operation_work(o)          *)
(*   cpc[o]  a caller thread inside gb_operation_cancel(o, errno)           *)
(* A step is one lock-protected or atomic piece of the code.               *)
(***************************************************************************)
EXTENDS Integers, Sequences, FiniteSets, TLC

\* ---------------------------------------------------------------- bounds
\* operation objects created on the connection
NumOps == 2
\* operations the callers of the main specification submit (the first ones)
MaxSends == 1
\* response frames the transport delivers in one run
MaxFrames == 2
\* gb_operation_cancel calls in one run
MaxCancels == 2
\* further gb_operation_request_send calls on an operation already submitted
\* (misuse specification only)
MaxResends == 1

Ops == 1..NumOps

\* ------------------------------------------------------- program constants
\* Linux errno values, negated as the code uses them.
ENOENT == -2
EINTR == -4
EIO == -5
EAGAIN == -11
ENOMEM == -12
ENODEV == -19
EINVAL == -22
EBADR == -53
EILSEQ == -84
EMSGSIZE == -90
EPROTONOSUPPORT == -93
ENOTCONN == -107
ETIMEDOUT == -110
EINPROGRESS == -115
ECANCELED == -125

U16_MAX == 65535
U16_MOD == 65536

\* enum gb_operation_status, the status byte of a response
GB_OP_SUCCESS == 0
GB_OP_INTERRUPTED == 1
GB_OP_TIMEOUT == 2
GB_OP_NO_MEMORY == 3
GB_OP_PROTOCOL_BAD == 4
GB_OP_OVERFLOW == 5
GB_OP_INVALID == 6
GB_OP_RETRY == 7
GB_OP_NONEXISTENT == 8
GB_OP_UNKNOWN_ERROR == 254
GB_OP_MALFUNCTION == 255

\* the response bit of the header's type byte
GB_MESSAGE_TYPE_RESPONSE == 128

\* ------------------------------------------------ inputs of the environment
\* status reported by the transport for a completed out-URB (check_urb_status)
SendStatuses == {0, ENOENT}
\* synchronous failures of the transport's message_send
SendErrors == {ENOMEM}
\* errno values the callers pass to gb_operation_cancel (line 714)
CancelCodes == {ETIMEDOUT}
\* status bytes carried by response frames
FrameResults == {GB_OP_SUCCESS, GB_OP_INVALID}
\* response payload size every operation of the model was created with
RespSize == 1
\* payload sizes carried by response frames
FramePayloads == {RespSize}
\* the byte the payload of a response frame is filled with
FrameBytes == {187}

\* the request types frames carry, without the response bit
FrameTypes == {2}
\* errno values a misusing caller passes to gb_operation_cancel
MisuseCodes == {EBADR}
\* timeout arguments of gb_operation_sync_timeout, in milliseconds
SyncTimeouts == {0, 1000}
\* connection->op_cycle of a fresh connection
CycleFresh == [hi |-> 0, lo |-> 0]
\* connection->op_cycle values the id specification starts from: fresh, around
\* the multiples of U16_MAX and of 2^16, and just before the 32-bit counter wraps
CycleStarts ==
    {CycleFresh,
     [hi |-> 0, lo |-> 65532], [hi |-> 0, lo |-> 65533], [hi |-> 0, lo |-> 65534],
     [hi |-> 0, lo |-> 65535], [hi |-> 1, lo |-> 65533], [hi |-> 32767, lo |-> 65534],
     [hi |-> 65534, lo |-> 65535], [hi |-> 65535, lo |-> 65533],
     [hi |-> 65535, lo |-> 65534]}

VARIABLES
    errno,          \* operation->errno
    active,         \* operation->active
    kref,           \* operation->kref (0: destroyed)
    id,             \* operation->id
    incoming,       \* operation->flags has GB_OPERATION_FLAG_INCOMING
    req_opid,       \* operation->request->header->operation_id, little-endian bytes
    response,       \* operation->response: what the last memcpy left in it
    waiters,        \* operation->waiters
    work_pending,   \* operation->work is queued on the completion workqueue
    op_cycle,       \* connection->op_cycle, as two 16-bit halves
    operations,     \* connection->operations
    state,          \* connection->state
    pc, ret,        \* gb_operation_request_send: position and return value
    nsends,         \* gb_operation_request_send calls made on the operation
    urb,            \* request out-URB: none, inflight, latched, done
    rpc, rop, rframe,   \* receive context: position, operation found, frame
    wpc,            \* gb_operation_work: position
    cpc,            \* gb_operation_cancel: position
    owner,          \* the caller still holds the initial reference
    uaf,            \* a destroyed operation has been dereferenced
    sync,           \* the caller's thread inside gb_operation_sync_timeout
    protocol,       \* connection->protocol: none bound, without or with request_recv
    inc,            \* incoming operation: flags, type, request, handler, response
    fn,             \* the function call the function specification has made
    pre,            \* active and kref when gb_operation_request_send was entered
    nwins,          \* final-code gb_operation_result_set calls that returned true
    winner,         \* who made the last call that returned true, and its code
    answer,         \* the response frame that made it, if one did
    nqueued,        \* queue_work calls that queued the work
    ncallback,      \* invocations of operation->callback
    cb_result,      \* gb_operation_result as the callback saw it
    nmsg_cancel,    \* calls of the transport's message_cancel on the request
    nframes,        \* frames that have reached gb_connection_recv_response or _request
    drops,          \* why gb_connection_recv has returned early so far
    ncancels        \* gb_operation_cancel calls so far

opvars == <<errno, active, kref, id, incoming, req_opid, response, waiters,
           work_pending>>
connvars == <<op_cycle, operations, state>>
sendvars == <<pc, ret, pre, nsends>>
recvvars == <<rpc, rop, rframe, nframes, drops>>
cancelvars == <<cpc, ncancels, nmsg_cancel>>
histvars == <<nwins, winner, answer, nqueued, ncallback, cb_result>>
vars == <<opvars, connvars, sendvars, urb, recvvars, wpc, cancelvars, owner, uaf,
          sync, protocol, inc, fn, histvars>>

\* ------------------------------------------------------------ pure helpers

\* cpu_to_le16 / le16_to_cpu: the two bytes of a u16, low byte first
cpu_to_le16(v) == <<v % 256, (v \div 256) % 256>>
le16_to_cpu(b) == b[1] + (256 * b[2])

\* atomic_inc_return on the 32-bit counter
atomic_inc_return(c) ==
    IF c.lo = U16_MOD - 1
    THEN [hi |-> (c.hi + 1) % U16_MOD, lo |-> 0]
    ELSE [hi |-> c.hi, lo |-> c.lo + 1]

\* mutant: the id without the "+ 1" that keeps it off the reserved zero
OperationId_ZeroBased(c) ==
    (((c.hi % U16_MAX) * (U16_MOD % U16_MAX)) + (c.lo % U16_MAX)) % U16_MAX

\* (u16)(cycle % U16_MAX + 1) for cycle = hi * 2^16 + lo
OperationId(c) ==
    LET cycle_mod == (((c.hi % U16_MAX) * (U16_MOD % U16_MAX)) + (c.lo % U16_MAX)) % U16_MAX
    IN  (cycle_mod + 1) % U16_MOD

\* mutant: a final code is stored, and true returned, whatever the field holds
gb_operation_result_set_unlatched(prev, result) ==
    IF result = EINPROGRESS
    THEN [errno |-> IF prev = EBADR THEN result ELSE EILSEQ, ret |-> TRUE]
    ELSE [errno |-> IF result = EBADR THEN EILSEQ ELSE result, ret |-> TRUE]

\* mutant: the unset sentinel is stored like any final code
gb_operation_result_set_sentinel(prev, result) ==
    IF result = EINPROGRESS
    THEN [errno |-> IF prev = EBADR THEN result ELSE EILSEQ, ret |-> TRUE]
    ELSE [errno |-> IF prev = EINPROGRESS THEN result ELSE prev,
          ret |-> prev = EINPROGRESS]

\* mutant: the in-progress marker is stored whatever the field holds
gb_operation_result_set_rearm(prev, result) ==
    IF result = EINPROGRESS
    THEN [errno |-> result, ret |-> TRUE]
    ELSE LET r == IF result = EBADR THEN EILSEQ ELSE result
         IN  [errno |-> IF prev = EINPROGRESS THEN r ELSE prev,
              ret |-> prev = EINPROGRESS]

\* gb_operation_result_set on an errno field holding prev: the new field and
\* the return value
gb_operation_result_set(prev, result) ==
    IF result = EINPROGRESS
    THEN [errno |-> IF prev = EBADR THEN result ELSE EILSEQ, ret |-> TRUE]
    ELSE LET r == IF result = EBADR THEN EILSEQ ELSE result
         IN  [errno |-> IF prev = EINPROGRESS THEN r ELSE prev,
              ret |-> prev = EINPROGRESS]

\* mutant: the malfunction status falls into the default case
gb_operation_status_map_NoMalfunction(status) ==
    CASE status = GB_OP_SUCCESS -> 0
      [] status = GB_OP_INTERRUPTED -> EINTR
      [] status = GB_OP_TIMEOUT -> ETIMEDOUT
      [] status = GB_OP_NO_MEMORY -> ENOMEM
      [] status = GB_OP_PROTOCOL_BAD -> EPROTONOSUPPORT
      [] status = GB_OP_OVERFLOW -> EMSGSIZE
      [] status = GB_OP_INVALID -> EINVAL
      [] status = GB_OP_RETRY -> EAGAIN
      [] status = GB_OP_NONEXISTENT -> ENODEV
      [] OTHER -> EIO

\* gb_operation_status_map
gb_operation_status_map(status) ==
    CASE status = GB_OP_SUCCESS -> 0
      [] status = GB_OP_INTERRUPTED -> EINTR
      [] status = GB_OP_TIMEOUT -> ETIMEDOUT
      [] status = GB_OP_NO_MEMORY -> ENOMEM
      [] status = GB_OP_PROTOCOL_BAD -> EPROTONOSUPPORT
      [] status = GB_OP_OVERFLOW -> EMSGSIZE
      [] status = GB_OP_INVALID -> EINVAL
      [] status = GB_OP_RETRY -> EAGAIN
      [] status = GB_OP_NONEXISTENT -> ENODEV
      [] status = GB_OP_MALFUNCTION -> EILSEQ
      [] OTHER -> EIO

\* gb_operation_errno_map
gb_operation_errno_map(e) ==
    CASE e = 0 -> GB_OP_SUCCESS
      [] e = EINTR -> GB_OP_INTERRUPTED
      [] e = ETIMEDOUT -> GB_OP_TIMEOUT
      [] e = ENOMEM -> GB_OP_NO_MEMORY
      [] e = EPROTONOSUPPORT -> GB_OP_PROTOCOL_BAD
      [] e = EMSGSIZE -> GB_OP_OVERFLOW
      [] e = EINVAL -> GB_OP_INVALID
      [] e = EAGAIN -> GB_OP_RETRY
      [] e = EILSEQ -> GB_OP_MALFUNCTION
      [] e = ENODEV -> GB_OP_NONEXISTENT
      [] OTHER -> GB_OP_UNKNOWN_ERROR

\* mutant: the lookup does not test the direction of the operation
gb_operation_find_outgoing_AnyDirection(list, operation_id) ==
    LET hits == {i \in 1..Len(list) : id[list[i]] = operation_id}
    IN  IF hits = {} THEN 0
        ELSE list[CHOOSE i \in hits : \A j \in hits : i <= j]

\* gb_operation_find_outgoing: the first outgoing operation of the list with
\* this id; 0 when there is none
gb_operation_find_outgoing(list, operation_id) ==
    LET hits == {i \in 1..Len(list) :
                    id[list[i]] = operation_id /\ ~incoming[list[i]]}
    IN  IF hits = {} THEN 0
        ELSE list[CHOOSE i \in hits : \A j \in hits : i <= j]

\* list_del
ListDel(list, o) == SelectSeq(list, LAMBDA x : x # o)

OnList(o) == \E i \in 1..Len(operations) : operations[i] = o

Destroyed(o) == kref[o] = 0

\* a response message nobody has written: kzalloc'ed payload, header of
\* gb_operation_message_init with the id copied from the request (still 0)
FreshResponse == [hdr |-> [opid |-> 0, result |-> 0, psize |-> RespSize],
                  payload |-> [i \in 1..RespSize |-> 0]]

NoFrame == [opid |-> 0, result |-> 0, psize |-> 0, byte |-> 0]

\* the caller's buffer before gb_operation_sync_timeout is called
CallerBuffer == [i \in 1..RespSize |-> 85]

\* no thread is inside gb_operation_sync_timeout for the operation
NoSync == [pc |-> "idle", timeout |-> 0, wait |-> "none", code |-> 0, ret |-> 0,
           response |-> CallerBuffer]

\* an outbound message that has not been allocated
NoMessage == [allocated |-> FALSE, opid |-> cpu_to_le16(0), type |-> 0, result |-> 0,
              psize |-> 0]

\* the fields an incoming operation adds: the unidirectional flag, the type,
\* the request buffer, where gb_operation_request_handle stands, the
\* handler's status, whether the handler allocated a response, the response
\* message, what gb_operation_response_send
\* returned, the calls of message_send on the response and its out-URB
NoInc == [unidirectional |-> FALSE, type |-> 0, request |-> [size |-> 0, payload |-> <<>>],
          pc |-> "idle", status |-> 0, handler_alloc |-> FALSE, resp |-> NoMessage,
          ret |-> 0, nsend |-> 0, rurb |-> "none"]

\* no function has been called
NoCall == [op |-> "none", x |-> 0, y |-> 0, z |-> 0, r1 |-> 0, r2 |-> 0]

InitOps ==
    /\ errno = [o \in Ops |-> EBADR]
    /\ active = [o \in Ops |-> 0]
    /\ kref = [o \in Ops |-> 1]
    /\ id = [o \in Ops |-> 0]
    /\ incoming = [o \in Ops |-> FALSE]
    /\ req_opid = [o \in Ops |-> cpu_to_le16(0)]
    /\ response = [o \in Ops |-> FreshResponse]
    /\ waiters = [o \in Ops |-> 0]
    /\ work_pending = [o \in Ops |-> FALSE]
    /\ operations = <<>>
    /\ state = "ENABLED"
    /\ pc = [o \in Ops |-> "created"]
    /\ ret = [o \in Ops |-> 0]
    /\ nsends = [o \in Ops |-> 0]
    /\ pre = [o \in Ops |-> [active |-> 0, kref |-> 1]]
    /\ urb = [o \in Ops |-> "none"]
    /\ rpc = "idle" /\ rop = 0 /\ rframe = NoFrame /\ nframes = 0 /\ drops = {}
    /\ wpc = [o \in Ops |-> "idle"]
    /\ cpc = [o \in Ops |-> "idle"]
    /\ ncancels = 0
    /\ nmsg_cancel = [o \in Ops |-> 0]
    /\ owner = [o \in Ops |-> TRUE]
    /\ uaf = FALSE
    /\ sync = [o \in Ops |-> NoSync]
    /\ inc = [o \in Ops |-> NoInc]
    /\ fn = NoCall
    /\ nwins = [o \in Ops |-> 0]
    /\ winner = [o \in Ops |-> [by |-> "none", code |-> 0]]
    /\ answer = [o \in Ops |-> NoFrame]
    /\ nqueued = [o \in Ops |-> 0]
    /\ ncallback = [o \in Ops |-> 0]
    /\ cb_result = [o \in Ops |-> EBADR]

\* ------------------------------------------------- shared pieces of the code

\* gb_operation_get_active with the connection enabled
GetActive(o) ==
    /\ active' = [active EXCEPT ![o] = @ + 1]
    /\ operations' = IF active[o] = 0 THEN Append(operations, o) ELSE operations

\* mutant: the last gb_operation_put_active wakes nobody
gb_operation_put_active_NoWake(o) ==
    /\ active' = [active EXCEPT ![o] = @ - 1]
    /\ operations' = IF active[o] - 1 = 0 THEN ListDel(operations, o) ELSE operations
    /\ cpc' = cpc

\* mutant: the last gb_operation_put_active leaves the operation on the list
gb_operation_put_active_NoUnlink(o) ==
    /\ active' = [active EXCEPT ![o] = @ - 1]
    /\ operations' = operations
    /\ cpc' = IF active[o] - 1 = 0 /\ waiters[o] # 0
              THEN [c \in Ops |-> IF cpc[c] = "sleep" THEN "wait" ELSE cpc[c]]
              ELSE cpc

\* gb_operation_put_active: the last one unlinks the operation and, when
\* somebody waits for it, wakes every sleeper of the global
\* gb_operation_cancellation_queue
gb_operation_put_active(o) ==
    /\ active' = [active EXCEPT ![o] = @ - 1]
    /\ operations' = IF active[o] - 1 = 0 THEN ListDel(operations, o) ELSE operations
    /\ cpc' = IF active[o] - 1 = 0 /\ waiters[o] # 0
              THEN [c \in Ops |-> IF cpc[c] = "sleep" THEN "wait" ELSE cpc[c]]
              ELSE cpc

\* gb_operation_put: kref_put, destroying the operation at zero
gb_operation_put(o) ==
    kref' = [kref EXCEPT ![o] = @ - 1]

\* queue_work: queues the work unless it is already pending
queue_work(o) ==
    /\ work_pending' = [work_pending EXCEPT ![o] = TRUE]
    /\ nqueued' = IF work_pending[o] THEN nqueued
                  ELSE [nqueued EXCEPT ![o] = @ + 1]

\* bookkeeping of a final-code gb_operation_result_set call on o
Latch(o, who, code) ==
    LET r == gb_operation_result_set(errno[o], code)
    IN  /\ errno' = [errno EXCEPT ![o] = r.errno]
        /\ nwins' = IF r.ret THEN [nwins EXCEPT ![o] = @ + 1] ELSE nwins
        /\ winner' = IF r.ret THEN [winner EXCEPT ![o] = [by |-> who, code |-> code]]
                     ELSE winner
        /\ answer' = IF r.ret /\ who = "recv" THEN [answer EXCEPT ![o] = rframe]
                     ELSE answer

Won(o, code) == gb_operation_result_set(errno[o], code).ret

\* ------------------------------------------------ gb_operation_request_send

\* lines 648-665: record the callback, assign the id, fill in the header,
\* mark the result in progress and take the extra reference.  Until
\* gb_operation_get_active links it, only the caller can reach the operation.
SendEnter(o) ==
    /\ nsends' = [nsends EXCEPT ![o] = @ + 1]
    /\ pre' = [pre EXCEPT ![o] = [active |-> active[o], kref |-> kref[o]]]
    /\ op_cycle' = atomic_inc_return(op_cycle)
    /\ id' = [id EXCEPT ![o] = OperationId(op_cycle')]
    /\ req_opid' = [req_opid EXCEPT ![o] = cpu_to_le16(id'[o])]
    /\ errno' = [errno EXCEPT ![o] = gb_operation_result_set(@, EINPROGRESS).errno]
    /\ kref' = [kref EXCEPT ![o] = @ + 1]
    /\ pc' = [pc EXCEPT ![o] = "get_active"]
    /\ UNCHANGED <<active, incoming, response, waiters, work_pending, operations,
                   state, ret, urb, recvvars, wpc, cancelvars, owner, uaf, protocol, inc, fn, histvars>>

\* The operations are interchangeable, so they are submitted in index order.
SendBegin(o) ==
    /\ ~uaf /\ ~Destroyed(o)
    /\ pc[o] = "created"
    /\ \A p \in Ops : p < o => pc[p] # "created"
    /\ SendEnter(o)
    /\ UNCHANGED sync

\* Misuse: the caller calls gb_operation_request_send again on an operation
\* whose earlier call has returned and whose first out-URB has completed
SendAgain(o) ==
    /\ ~uaf /\ ~Destroyed(o)
    /\ pc[o] \in {"sent", "failed"} /\ owner[o] /\ cpc[o] = "idle"
    /\ urb[o] \in {"none", "done"}
    /\ nsends[o] < 1 + MaxResends
    /\ SendEnter(o)
    /\ UNCHANGED sync

\* mutant: gb_operation_get_active does not look at the connection's state
SendGetActive_NoStateTest(o) ==
    /\ ~uaf /\ ~Destroyed(o)
    /\ pc[o] = "get_active"
    /\ GetActive(o)
    /\ pc' = [pc EXCEPT ![o] = "msg_send"]
    /\ UNCHANGED <<errno, kref, id, incoming, req_opid, response, waiters, work_pending,
                   op_cycle, state, ret, pre, nsends, urb, recvvars, wpc, cancelvars,
                   owner, uaf, protocol, inc, fn, sync, histvars>>

\* lines 666-668: gb_operation_get_active
SendGetActive(o) ==
    /\ ~uaf /\ ~Destroyed(o)
    /\ pc[o] = "get_active"
    /\ IF state # "ENABLED"
       THEN /\ ret' = [ret EXCEPT ![o] = ENOTCONN]
            /\ pc' = [pc EXCEPT ![o] = "err_put"]
            /\ UNCHANGED <<active, operations>>
       ELSE /\ GetActive(o)
            /\ pc' = [pc EXCEPT ![o] = "msg_send"]
            /\ UNCHANGED ret
    /\ UNCHANGED <<errno, kref, id, incoming, req_opid, response, waiters, work_pending,
                   op_cycle, state, pre, nsends, urb, recvvars, wpc, cancelvars, owner, uaf, protocol, inc, fn, sync,
                   histvars>>

\* lines 670-674: gb_message_send accepted by the transport, which now owns
\* an out-URB for the request
SendMessageOk(o) ==
    /\ ~uaf /\ ~Destroyed(o)
    /\ pc[o] = "msg_send"
    /\ urb' = [urb EXCEPT ![o] = "inflight"]
    /\ ret' = [ret EXCEPT ![o] = 0]
    /\ pc' = [pc EXCEPT ![o] = "sent"]
    /\ UNCHANGED <<opvars, connvars, pre, nsends, recvvars, wpc, cancelvars, owner, uaf, protocol, inc, fn, sync,
                   histvars>>

\* lines 670-672: gb_message_send refused by the transport
SendMessageFail(o) ==
    /\ ~uaf /\ ~Destroyed(o)
    /\ pc[o] = "msg_send"
    /\ \E e \in SendErrors : ret' = [ret EXCEPT ![o] = e]
    /\ pc' = [pc EXCEPT ![o] = "err_put_active"]
    /\ UNCHANGED <<opvars, connvars, pre, nsends, urb, recvvars, wpc, cancelvars, owner, uaf, protocol, inc, fn, sync,
                   histvars>>

\* lines 676-677: err_put_active
SendErrPutActive(o) ==
    /\ ~uaf /\ ~Destroyed(o)
    /\ pc[o] = "err_put_active"
    /\ gb_operation_put_active(o)
    /\ pc' = [pc EXCEPT ![o] = "err_put"]
    /\ UNCHANGED <<errno, kref, id, incoming, req_opid, response, waiters, work_pending,
                   op_cycle, state, ret, pre, nsends, urb, recvvars, wpc, ncancels,
                   nmsg_cancel, owner, uaf, protocol, inc, fn, sync, histvars>>

\* lines 678-681: err_put, and the return of the error
SendErrPut(o) ==
    /\ ~uaf /\ ~Destroyed(o)
    /\ pc[o] = "err_put"
    /\ gb_operation_put(o)
    /\ pc' = [pc EXCEPT ![o] = "failed"]
    /\ UNCHANGED <<errno, active, id, incoming, req_opid, response, waiters, work_pending,
                   connvars, ret, pre, nsends, urb, recvvars, wpc, cancelvars, owner, uaf, protocol, inc, fn, sync,
                   histvars>>

\* ------------------------------- cport_out_callback -> greybus_message_sent

\* mutant: a send error queues the completion work whether or not it latched
MessageSent_QueueAlways(o, status) ==
    /\ ~uaf /\ ~Destroyed(o)
    /\ urb[o] = "inflight"
    /\ IF status = 0
       THEN /\ urb' = [urb EXCEPT ![o] = "done"]
            /\ UNCHANGED <<errno, nwins, winner, answer>>
       ELSE /\ Latch(o, "sent", status)
            /\ urb' = [urb EXCEPT ![o] = "latched"]
    /\ UNCHANGED <<active, kref, id, incoming, req_opid, response, waiters, work_pending,
                   connvars, sendvars, recvvars, wpc, cancelvars, owner, uaf, protocol, inc, fn, sync,
                   nqueued, ncallback, cb_result>>

\* The out-URB of o's request completes with this status.  The message is a
\* request: status 0 leaves everything alone, an error is latched.
MessageSent(o, status) ==
    /\ ~uaf /\ ~Destroyed(o)
    /\ urb[o] = "inflight"
    /\ IF status = 0
       THEN /\ urb' = [urb EXCEPT ![o] = "done"]
            /\ UNCHANGED <<errno, nwins, winner, answer>>
       ELSE /\ Latch(o, "sent", status)
            /\ urb' = [urb EXCEPT ![o] = IF Won(o, status) THEN "latched" ELSE "done"]
    /\ UNCHANGED <<active, kref, id, incoming, req_opid, response, waiters, work_pending,
                   connvars, sendvars, recvvars, wpc, cancelvars, owner, uaf, protocol, inc, fn, sync,
                   nqueued, ncallback, cb_result>>

\* lines 804-805: the latch was won, queue the completion work
MessageSentQueue(o) ==
    /\ ~uaf /\ ~Destroyed(o)
    /\ urb[o] = "latched"
    /\ queue_work(o)
    /\ urb' = [urb EXCEPT ![o] = "done"]
    /\ UNCHANGED <<errno, active, kref, id, incoming, req_opid, response, waiters, connvars,
                   sendvars, recvvars, wpc, cancelvars, owner, uaf, protocol, inc, fn, sync, nwins, winner, answer,
                   ncallback, cb_result>>

\* ------------------------------------------------------- gb_connection_recv

Frames == [opid : {id[o] : o \in Ops} \cup {0}, result : FrameResults,
           psize : FramePayloads, byte : FrameBytes]

\* gb_connection_recv of a well-formed response frame, up to the lookup of
\* gb_connection_recv_response: dropped when the connection is not enabled or
\* no outgoing operation of the list has the id, else a reference is taken
RecvResponse(f) ==
    /\ ~uaf
    /\ rpc = "idle"
    /\ nframes < MaxFrames
    /\ \A o \in Ops : OnList(o) => ~Destroyed(o)
    /\ nframes' = nframes + 1
    /\ LET found == gb_operation_find_outgoing(operations, f.opid)
       IN  IF state # "ENABLED" \/ found = 0
           THEN UNCHANGED <<kref, rpc, rop, rframe>>
           ELSE /\ kref' = [kref EXCEPT ![found] = @ + 1]
                /\ rpc' = "latch"
                /\ rop' = found
                /\ rframe' = f
    /\ UNCHANGED <<errno, active, id, incoming, req_opid, response, waiters, work_pending,
                   connvars, sendvars, urb, drops, wpc, cancelvars, owner, uaf, protocol, inc, fn, sync,
                   histvars>>

\* the payload bytes of a frame: consecutive values from its first byte
FramePayload(f) == [i \in 1..f.psize |-> (f.byte + i - 1) % 256]

\* lines 859-878: the result a response frame asks for; the frame and the
\* response buffer carry the same header, so their sizes differ as their
\* payload sizes do
ResponseErrno(f) ==
    LET mapped == gb_operation_status_map(f.result)
    IN  IF mapped = 0 /\ f.psize # RespSize THEN EMSGSIZE ELSE mapped

\* mutant: the frame is copied and the work queued whether or not it latched
RecvLatch_CopyAlways ==
    /\ rpc = "latch"
    /\ ~uaf /\ ~Destroyed(rop)
    /\ Latch(rop, "recv", ResponseErrno(rframe))
    /\ rpc' = "copy"
    /\ UNCHANGED <<active, kref, id, incoming, req_opid, response, waiters, work_pending,
                   connvars, sendvars, urb, rop, rframe, nframes, drops, wpc, cancelvars,
                   owner, uaf, protocol, inc, fn, sync, nqueued, ncallback, cb_result>>

\* line 881: gb_operation_result_set
RecvLatch ==
    /\ rpc = "latch"
    /\ ~uaf /\ ~Destroyed(rop)
    /\ Latch(rop, "recv", ResponseErrno(rframe))
    /\ rpc' = IF Won(rop, ResponseErrno(rframe)) THEN "copy" ELSE "put"
    /\ UNCHANGED <<active, kref, id, incoming, req_opid, response, waiters, work_pending,
                   connvars, sendvars, urb, rop, rframe, nframes, drops, wpc, cancelvars,
                   owner, uaf, protocol, inc, fn, sync, nqueued, ncallback, cb_result>>

\* mutant: header and payload are copied, whatever the result
ResponseCopy_PayloadAlways(old, f) ==
    [hdr |-> [opid |-> f.opid, result |-> f.result, psize |-> f.psize],
     payload |-> FramePayload(f)]

\* mutant: the header alone is copied, whatever the result
ResponseCopy_HeaderOnly(old, f) ==
    [hdr |-> [opid |-> f.opid, result |-> f.result, psize |-> f.psize],
     payload |-> old.payload]

\* line 882: memcpy(message->header, data, size), the header alone when the
\* result is an error
ResponseCopy(old, f) ==
    [hdr |-> [opid |-> f.opid, result |-> f.result, psize |-> f.psize],
     payload |-> IF ResponseErrno(f) # 0 THEN old.payload ELSE FramePayload(f)]

\* mutant: the winning frame is copied but the completion work is not queued
RecvCopy_NoQueue ==
    /\ rpc = "copy"
    /\ ~uaf /\ ~Destroyed(rop)
    /\ response' = [response EXCEPT ![rop] = ResponseCopy(@, rframe)]
    /\ rpc' = "put"
    /\ UNCHANGED <<errno, active, kref, id, incoming, req_opid, waiters, work_pending,
                   connvars, sendvars, urb, rop, rframe, nframes, drops, wpc, cancelvars,
                   owner, uaf, protocol, inc, fn, sync, histvars>>

\* lines 882-883: copy the frame and queue the completion work
RecvCopy ==
    /\ rpc = "copy"
    /\ ~uaf /\ ~Destroyed(rop)
    /\ response' = [response EXCEPT ![rop] = ResponseCopy(@, rframe)]
    /\ queue_work(rop)
    /\ rpc' = "put"
    /\ UNCHANGED <<errno, active, kref, id, incoming, req_opid, waiters, connvars, sendvars,
                   urb, rop, rframe, nframes, drops, wpc, cancelvars, owner, uaf, protocol, inc, fn, sync, nwins,
                   winner, answer, ncallback, cb_result>>

\* line 886: gb_operation_put
RecvPut ==
    /\ rpc = "put"
    /\ ~uaf /\ ~Destroyed(rop)
    /\ gb_operation_put(rop)
    /\ rpc' = "idle" /\ rop' = 0 /\ rframe' = NoFrame
    /\ UNCHANGED <<errno, active, id, incoming, req_opid, response, waiters, work_pending,
                   connvars, sendvars, urb, nframes, drops, wpc, cancelvars, owner, uaf, protocol, inc, fn, sync,
                   histvars>>

\* sizeof(struct gb_operation_msg_hdr): size and operation_id of two bytes,
\* type and result of one, two pad bytes
HdrSize == 2 + 2 + 1 + 1 + 2

\* what the transport hands to gb_connection_recv: len received bytes that
\* start with a header declaring size bytes, the response bit of type, an
\* operation id and a result
WireFrames == [resp : BOOLEAN, type : FrameTypes, opid : {id[o] : o \in Ops} \cup {0, 1},
               result : FrameResults,
               size : {HdrSize + RespSize, HdrSize + RespSize + 1},
               len : {HdrSize - 1, HdrSize + RespSize, HdrSize + RespSize + 1},
               byte : FrameBytes]

\* the frame as gb_connection_recv_response sees it: msg_size bytes of data
ResponseFrame(w) == [opid |-> w.opid, result |-> w.result,
                     psize |-> w.size - HdrSize, byte |-> w.byte]

\* lines 901-921: the reason gb_connection_recv returns early, if any
DropCause(w) ==
    IF state # "ENABLED" THEN "disabled"
    ELSE IF w.len < HdrSize THEN "short"
    ELSE IF w.len < w.size THEN "incomplete"
    ELSE "none"

\* gb_connection_recv returns early: nothing but the log is written.  One
\* refusal is followed for each reason, a second one being no different.
RecvDrop(w) ==
    /\ ~uaf
    /\ rpc = "idle"
    /\ DropCause(w) \notin drops
    /\ drops' = drops \cup {DropCause(w)}
    /\ UNCHANGED <<opvars, connvars, sendvars, urb, rpc, rop, rframe, nframes, wpc,
                   cancelvars, owner, uaf, protocol, inc, fn, sync, histvars>>

\* the operations gb_operation_create_incoming can still allocate
IncomingSlots ==
    {o \in Ops : o > MaxSends /\ pc[o] = "created" /\ ~incoming[o] /\ ~Destroyed(o)}

\* lines 818-829 and 553-577: gb_connection_recv_request creates the incoming
\* operation, its id and request header taken from the frame; with nothing
\* left to allocate it returns
RecvRequest(w) ==
    /\ ~uaf
    /\ rpc = "idle"
    /\ nframes < MaxFrames
    /\ nframes' = nframes + 1
    /\ IF IncomingSlots = {}
       THEN UNCHANGED <<id, incoming, req_opid, pc, owner, rpc, rop, inc>>
       ELSE LET o == CHOOSE x \in IncomingSlots : \A y \in IncomingSlots : x <= y
            IN  /\ incoming' = [incoming EXCEPT ![o] = TRUE]
                /\ id' = [id EXCEPT ![o] = w.opid]
                /\ req_opid' = [req_opid EXCEPT ![o] = cpu_to_le16(w.opid)]
                /\ pc' = [pc EXCEPT ![o] = "incoming"]
                /\ owner' = [owner EXCEPT ![o] = FALSE]
                /\ inc' = [inc EXCEPT
                               ![o].unidirectional = (w.opid = 0),
                               ![o].type = w.type,
                               ![o].request =
                                   [size |-> w.size,
                                    payload |-> [i \in 1..(w.size - HdrSize) |-> w.byte]]]
                /\ rpc' = "request"
                /\ rop' = o
    /\ UNCHANGED <<errno, active, kref, response, waiters, work_pending, connvars, ret,
                   pre, nsends, urb, rframe, drops, wpc, cancelvars, uaf, protocol, fn,
                   sync, histvars>>

\* mutant: the result is not marked in progress before the work is queued
RecvRequestActive_NoLatch ==
    /\ rpc = "request"
    /\ ~uaf /\ ~Destroyed(rop)
    /\ IF state # "ENABLED"
       THEN /\ gb_operation_put(rop)
            /\ UNCHANGED <<active, operations, work_pending, nqueued>>
       ELSE /\ GetActive(rop)
            /\ queue_work(rop)
            /\ UNCHANGED kref
    /\ rpc' = "idle" /\ rop' = 0
    /\ UNCHANGED <<errno, id, incoming, req_opid, response, waiters, op_cycle, state,
                   sendvars, urb, rframe, nframes, drops, wpc, cancelvars, owner, uaf,
                   protocol, inc, fn, sync, nwins, winner, answer, ncallback, cb_result>>

\* lines 831-843: gb_operation_get_active; refused, the operation is put,
\* else its result is marked in progress and its handling queued
RecvRequestActive ==
    /\ rpc = "request"
    /\ ~uaf /\ ~Destroyed(rop)
    /\ IF state # "ENABLED"
       THEN /\ gb_operation_put(rop)
            /\ UNCHANGED <<errno, active, operations, work_pending, nqueued>>
       ELSE /\ GetActive(rop)
            /\ errno' = [errno EXCEPT
                             ![rop] = gb_operation_result_set(@, EINPROGRESS).errno]
            /\ IF gb_operation_result_set(errno[rop], EINPROGRESS).ret
               THEN queue_work(rop)
               ELSE UNCHANGED <<work_pending, nqueued>>
            /\ UNCHANGED kref
    /\ rpc' = "idle" /\ rop' = 0
    /\ UNCHANGED <<id, incoming, req_opid, response, waiters, op_cycle, state, sendvars,
                   urb, rframe, nframes, drops, wpc, cancelvars, owner, uaf, protocol, inc, fn, sync, nwins,
                   winner, answer, ncallback, cb_result>>

\* mutant: the declared size is not compared with the received length
gb_connection_recv_NoSizeCheck(w) ==
    IF state # "ENABLED" \/ w.len < HdrSize THEN RecvDrop(w)
    ELSE IF w.resp THEN RecvResponse(ResponseFrame(w))
    ELSE RecvRequest(w)

\* lines 894-930: gb_connection_recv
gb_connection_recv(w) ==
    IF DropCause(w) # "none" THEN RecvDrop(w)
    ELSE IF w.resp THEN RecvResponse(ResponseFrame(w))
    ELSE RecvRequest(w)

\* -------------------------------------------------------- gb_operation_work

\* mutant: the work goes on to its puts without invoking the callback
WorkRun_NoCallback(o) ==
    /\ ~uaf /\ ~Destroyed(o)
    /\ work_pending[o] /\ wpc[o] = "idle"
    /\ ~incoming[o]
    /\ work_pending' = [work_pending EXCEPT ![o] = FALSE]
    /\ wpc' = [wpc EXCEPT ![o] = "callback"]
    /\ UNCHANGED <<errno, active, kref, id, incoming, req_opid, response, waiters,
                   connvars, sendvars, urb, recvvars, cancelvars, owner, uaf, protocol,
                   inc, fn, sync, histvars>>

\* The workqueue takes the pending work and enters operation->callback
WorkRun(o) ==
    /\ ~uaf /\ ~Destroyed(o)
    /\ work_pending[o] /\ wpc[o] = "idle"
    /\ ~incoming[o]
    /\ work_pending' = [work_pending EXCEPT ![o] = FALSE]
    /\ ncallback' = [ncallback EXCEPT ![o] = @ + 1]
    /\ cb_result' = [cb_result EXCEPT ![o] = errno[o]]
    /\ wpc' = [wpc EXCEPT ![o] = "callback"]
    /\ UNCHANGED <<errno, active, kref, id, incoming, req_opid, response, waiters, connvars,
                   sendvars, urb, recvvars, cancelvars, owner, uaf, protocol, inc, fn, sync, nwins, winner, answer,
                   nqueued>>

\* lines 261-262 and 222-223: for an incoming operation the workqueue enters
\* gb_operation_request_handle, which returns at once on a connection with
\* no protocol bound
WorkRunIncoming(o) ==
    /\ ~uaf /\ ~Destroyed(o)
    /\ work_pending[o] /\ wpc[o] = "idle"
    /\ incoming[o]
    /\ protocol = "none"
    /\ work_pending' = [work_pending EXCEPT ![o] = FALSE]
    /\ wpc' = [wpc EXCEPT ![o] = "callback"]
    /\ UNCHANGED <<errno, active, kref, id, incoming, req_opid, response, waiters, connvars,
                   sendvars, urb, recvvars, cancelvars, owner, uaf, protocol, inc, fn, sync, histvars>>

\* lines 264-266: the callback returns, gb_operation_put_active
WorkPutActive(o) ==
    /\ ~uaf /\ ~Destroyed(o)
    /\ wpc[o] = "callback"
    /\ gb_operation_put_active(o)
    /\ wpc' = [wpc EXCEPT ![o] = "put"]
    /\ UNCHANGED <<errno, kref, id, incoming, req_opid, response, waiters, work_pending,
                   op_cycle, state, sendvars, urb, recvvars, ncancels,
                   nmsg_cancel, owner, uaf, protocol, inc, fn, sync, histvars>>

\* line 267
WorkPut(o) ==
    /\ ~uaf /\ ~Destroyed(o)
    /\ wpc[o] = "put"
    /\ gb_operation_put(o)
    /\ wpc' = [wpc EXCEPT ![o] = "idle"]
    /\ UNCHANGED <<errno, active, id, incoming, req_opid, response, waiters, work_pending,
                   connvars, sendvars, urb, recvvars, cancelvars, owner, uaf, protocol, inc, fn, sync,
                   histvars>>

\* ------------------------------------------ gb_operation_request_handle

\* the status values a request handler returns
HandlerStatuses == {0, EINVAL, ENOENT}

\* what connection->protocol can be: NULL, a protocol without request_recv,
\* a protocol with one
Protocols == {"none", "no_handler", "handler"}

IncUnchanged ==
    UNCHANGED <<id, incoming, req_opid, response, waiters, op_cycle, state, sendvars,
                urb, recvvars, ncancels, nmsg_cancel, owner, uaf, protocol, fn, sync,
                histvars>>

\* mutant: the operation id is left as gb_operation_message_init wrote it
gb_operation_response_alloc_NoId(o, response_size) ==
    [allocated |-> TRUE, opid |-> cpu_to_le16(0),
     type |-> (inc[o].type % GB_MESSAGE_TYPE_RESPONSE) + GB_MESSAGE_TYPE_RESPONSE,
     result |-> 0, psize |-> response_size]

\* lines 428-453 and 287-303: the response message gb_operation_response_alloc
\* makes, the allocator having memory: type with the response bit or'ed in,
\* result 0, operation id copied from the request header as it is
gb_operation_response_alloc(o, response_size) ==
    [allocated |-> TRUE, opid |-> req_opid[o],
     type |-> (inc[o].type % GB_MESSAGE_TYPE_RESPONSE) + GB_MESSAGE_TYPE_RESPONSE,
     result |-> 0, psize |-> response_size]

\* lines 261 and 218-233: the workqueue takes the pending work of an incoming
\* operation on a connection with a protocol; gb_operation_request_handle
\* calls its request_recv, which returns this status and may have allocated
\* a response of RespSize payload bytes, or there is no request_recv and the
\* status is -EPROTONOSUPPORT
RequestHandle(o, status, alloc) ==
    /\ ~uaf /\ ~Destroyed(o)
    /\ work_pending[o] /\ wpc[o] = "idle"
    /\ incoming[o]
    /\ protocol # "none"
    /\ work_pending' = [work_pending EXCEPT ![o] = FALSE]
    /\ wpc' = [wpc EXCEPT ![o] = "handler"]
    /\ inc' = [inc EXCEPT
                   ![o].pc = "respond",
                   ![o].status = IF protocol = "handler" THEN status
                                 ELSE EPROTONOSUPPORT,
                   ![o].handler_alloc = (protocol = "handler" /\ alloc),
                   ![o].resp = IF protocol = "handler" /\ alloc
                               THEN gb_operation_response_alloc(o, RespSize)
                               ELSE @]
    /\ UNCHANGED <<errno, active, kref, operations, cpc>>
    /\ IncUnchanged

\* mutant: the unidirectional flag is not looked at
ResponseSend_Bidirectional(o) ==
    /\ ~uaf /\ ~Destroyed(o)
    /\ wpc[o] = "handler" /\ inc[o].pc = "respond"
    /\ errno' = [errno EXCEPT ![o] = gb_operation_result_set(@, inc[o].status).errno]
    /\ kref' = [kref EXCEPT ![o] = @ + 1]
    /\ inc' = [inc EXCEPT ![o].pc = "get_active",
                          ![o].resp = IF @.allocated THEN @
                                      ELSE gb_operation_response_alloc(o, 0)]
    /\ UNCHANGED <<wpc, active, operations, cpc, work_pending>>
    /\ IncUnchanged

\* lines 736-752: gb_operation_response_send allocates an empty response if
\* there is none and one is wanted, records the status as the result, and
\* returns for a unidirectional operation; otherwise it takes the reference
\* the sent message will drop
ResponseSend(o) ==
    /\ ~uaf /\ ~Destroyed(o)
    /\ wpc[o] = "handler" /\ inc[o].pc = "respond"
    /\ LET resp == IF ~inc[o].resp.allocated /\ ~inc[o].unidirectional
                   THEN gb_operation_response_alloc(o, 0)
                   ELSE inc[o].resp
           set == gb_operation_result_set(errno[o], inc[o].status)
       IN  /\ errno' = [errno EXCEPT ![o] = set.errno]
           /\ IF ~set.ret
              THEN /\ inc' = [inc EXCEPT ![o].pc = "done", ![o].resp = resp,
                                         ![o].ret = EIO]
                   /\ wpc' = [wpc EXCEPT ![o] = "callback"]
                   /\ UNCHANGED kref
              ELSE IF inc[o].unidirectional
              THEN /\ inc' = [inc EXCEPT ![o].pc = "done", ![o].resp = resp]
                   /\ wpc' = [wpc EXCEPT ![o] = "callback"]
                   /\ UNCHANGED kref
              ELSE /\ inc' = [inc EXCEPT ![o].pc = "get_active", ![o].resp = resp]
                   /\ kref' = [kref EXCEPT ![o] = @ + 1]
                   /\ UNCHANGED wpc
    /\ UNCHANGED <<active, operations, cpc, work_pending>>
    /\ IncUnchanged

\* lines 753-759 and 771-772: gb_operation_get_active; refused, the reference
\* is put and -ENOTCONN returned, else the status byte is written into the
\* response header
ResponseGetActive(o) ==
    /\ ~uaf /\ ~Destroyed(o)
    /\ wpc[o] = "handler" /\ inc[o].pc = "get_active"
    /\ IF state # "ENABLED"
       THEN /\ gb_operation_put(o)
            /\ inc' = [inc EXCEPT ![o].pc = "done", ![o].ret = ENOTCONN]
            /\ wpc' = [wpc EXCEPT ![o] = "callback"]
            /\ UNCHANGED <<active, operations>>
       ELSE /\ GetActive(o)
            /\ inc' = [inc EXCEPT
                           ![o].pc = "msg_send",
                           ![o].resp.result = gb_operation_errno_map(inc[o].status)]
            /\ UNCHANGED <<kref, wpc>>
    /\ UNCHANGED <<errno, cpc, work_pending>>
    /\ IncUnchanged

\* lines 761-772: gb_message_send of the response; accepted, the out-URB is
\* in flight and 0 is returned, else the active count and the reference are
\* put back and the error returned.  Either way gb_operation_request_handle
\* returns to gb_operation_work.
ResponseMessageSend(o, ok) ==
    /\ ~uaf /\ ~Destroyed(o)
    /\ wpc[o] = "handler" /\ inc[o].pc = "msg_send"
    /\ wpc' = [wpc EXCEPT ![o] = "callback"]
    /\ IF ok
       THEN /\ inc' = [inc EXCEPT ![o].pc = "done", ![o].nsend = @ + 1,
                                  ![o].rurb = "inflight"]
            /\ UNCHANGED <<active, operations, cpc, kref>>
       ELSE /\ inc' = [inc EXCEPT ![o].pc = "done", ![o].nsend = @ + 1,
                                  ![o].ret = ENOMEM]
            /\ gb_operation_put_active(o)
            /\ gb_operation_put(o)
    /\ UNCHANGED <<errno, work_pending>>
    /\ IncUnchanged

\* mutant: the reference taken for the response is not dropped
ResponseSent_KeepsReference(o, status) ==
    /\ ~uaf /\ ~Destroyed(o)
    /\ inc[o].rurb = "inflight"
    /\ inc' = [inc EXCEPT ![o].rurb = "sent"]
    /\ gb_operation_put_active(o)
    /\ UNCHANGED <<kref, errno, wpc, work_pending>>
    /\ IncUnchanged

\* lines 792-799: greybus_message_sent for a response message; the status is
\* logged and nothing else: gb_operation_put_active and gb_operation_put
ResponseSent(o, status) ==
    /\ ~uaf /\ ~Destroyed(o)
    /\ inc[o].rurb = "inflight"
    /\ inc' = [inc EXCEPT ![o].rurb = "sent"]
    /\ gb_operation_put_active(o)
    /\ gb_operation_put(o)
    /\ UNCHANGED <<errno, wpc, work_pending>>
    /\ IncUnchanged

\* ------------------------------------------------------ gb_operation_cancel

\* mutant: message_cancel and queue_work follow whether or not the call latched
CancelCall_NoLatchTest(o, e) ==
    /\ ~uaf /\ ~Destroyed(o)
    /\ pc[o] = "sent" /\ owner[o] /\ cpc[o] = "idle"
    /\ ncancels < MaxCancels
    /\ ncancels' = ncancels + 1
    /\ Latch(o, "cancel", e)
    /\ cpc' = [cpc EXCEPT ![o] = "kill"]
    /\ nmsg_cancel' = [nmsg_cancel EXCEPT ![o] = @ + 1]
    /\ UNCHANGED <<active, kref, id, incoming, req_opid, response, waiters, work_pending,
                   connvars, sendvars, urb, recvvars, wpc, owner, uaf, protocol, inc, fn, sync,
                   nqueued, ncallback, cb_result>>

\* lines 941-942: gb_operation_cancel(o, e) tries to latch e and, when it
\* has, enters the transport's message_cancel
CancelEnter(o, e) ==
    /\ ~uaf /\ ~Destroyed(o)
    /\ pc[o] = "sent" /\ owner[o] /\ cpc[o] = "idle"
    /\ ncancels < MaxCancels
    /\ ncancels' = ncancels + 1
    /\ Latch(o, "cancel", e)
    /\ cpc' = [cpc EXCEPT ![o] = IF Won(o, e) THEN "kill" ELSE "inc"]
    /\ nmsg_cancel' = IF Won(o, e) THEN [nmsg_cancel EXCEPT ![o] = @ + 1]
                      ELSE nmsg_cancel
    /\ UNCHANGED <<active, kref, id, incoming, req_opid, response, waiters, work_pending,
                   connvars, sendvars, urb, recvvars, wpc, owner, uaf, protocol, inc, fn,
                   nqueued, ncallback, cb_result>>

\* a caller that holds a reference on a submitted operation calls
\* gb_operation_cancel(o, e)
CancelCall(o, e) ==
    /\ CancelEnter(o, e)
    /\ UNCHANGED sync

\* mutant: the winning cancel call forgets to queue the completion work
CancelQueue_NoWork(o) ==
    /\ ~uaf /\ ~Destroyed(o)
    /\ cpc[o] = "kill"
    /\ urb[o] \notin {"inflight", "latched"}
    /\ cpc' = [cpc EXCEPT ![o] = "inc"]
    /\ UNCHANGED <<opvars, connvars, sendvars, urb, recvvars, wpc, ncancels,
                   nmsg_cancel, owner, uaf, protocol, inc, fn, sync, histvars>>

\* lines 942-943: message_cancel returns once usb_kill_urb has seen the
\* out-URB's completion callback finish; then the completion work is queued
CancelQueue(o) ==
    /\ ~uaf /\ ~Destroyed(o)
    /\ cpc[o] = "kill"
    /\ urb[o] \notin {"inflight", "latched"}
    /\ queue_work(o)
    /\ cpc' = [cpc EXCEPT ![o] = "inc"]
    /\ UNCHANGED <<errno, active, kref, id, incoming, req_opid, response, waiters, connvars,
                   sendvars, urb, recvvars, wpc, ncancels, nmsg_cancel, owner,
                   uaf, protocol, inc, fn, sync, nwins, winner, answer, ncallback, cb_result>>

\* line 946
CancelIncWaiters(o) ==
    /\ ~uaf /\ ~Destroyed(o)
    /\ cpc[o] = "inc"
    /\ waiters' = [waiters EXCEPT ![o] = @ + 1]
    /\ cpc' = [cpc EXCEPT ![o] = "wait"]
    /\ UNCHANGED <<errno, active, kref, id, incoming, req_opid, response, work_pending,
                   connvars, sendvars, urb, recvvars, wpc, ncancels,
                   nmsg_cancel, owner, uaf, protocol, inc, fn, sync, histvars>>

\* mutant: the cancel call does not wait for the operation to become inactive
CancelWait_NoSleep(o) ==
    /\ ~uaf /\ ~Destroyed(o)
    /\ cpc[o] = "wait"
    /\ cpc' = [cpc EXCEPT ![o] = "dec"]
    /\ UNCHANGED <<opvars, connvars, sendvars, urb, recvvars, wpc, ncancels,
                   nmsg_cancel, owner, uaf, protocol, inc, fn, sync, histvars>>

\* mutant: the wait ends while one active count is still held
CancelWait_OffByOne(o) ==
    /\ ~uaf /\ ~Destroyed(o)
    /\ cpc[o] = "wait"
    /\ cpc' = [cpc EXCEPT ![o] = IF active[o] > 1 THEN "sleep" ELSE "dec"]
    /\ UNCHANGED <<opvars, connvars, sendvars, urb, recvvars, wpc, ncancels,
                   nmsg_cancel, owner, uaf, protocol, inc, fn, sync, histvars>>

\* lines 947-948: wait_event tests !gb_operation_is_active and sleeps on the
\* cancellation queue while the operation is active
CancelWait(o) ==
    /\ ~uaf /\ ~Destroyed(o)
    /\ cpc[o] = "wait"
    /\ cpc' = [cpc EXCEPT ![o] = IF active[o] # 0 THEN "sleep" ELSE "dec"]
    /\ UNCHANGED <<opvars, connvars, sendvars, urb, recvvars, wpc, ncancels,
                   nmsg_cancel, owner, uaf, protocol, inc, fn, sync, histvars>>

\* line 949, and the return of gb_operation_cancel
CancelReturn(o) ==
    /\ ~uaf /\ ~Destroyed(o)
    /\ cpc[o] = "dec"
    /\ waiters' = [waiters EXCEPT ![o] = @ - 1]
    /\ cpc' = [cpc EXCEPT ![o] = "idle"]
    /\ UNCHANGED <<errno, active, kref, id, incoming, req_opid, response, work_pending,
                   connvars, sendvars, urb, recvvars, wpc, ncancels,
                   nmsg_cancel, owner, uaf, protocol, inc, fn, sync, histvars>>

\* ------------------------------------------------------------ environment

\* The caller drops the initial reference (the callback's duty, line 630):
\* after a failed send, or once the callback has been entered, and not while
\* one of its threads is inside gb_operation_cancel
OwnerPut(o) ==
    /\ ~uaf /\ ~Destroyed(o)
    /\ owner[o] /\ cpc[o] = "idle"
    /\ pc[o] = "failed" \/ (pc[o] = "sent" /\ ncallback[o] > 0)
    /\ gb_operation_put(o)
    /\ owner' = [owner EXCEPT ![o] = FALSE]
    /\ UNCHANGED <<errno, active, id, incoming, req_opid, response, waiters, work_pending,
                   connvars, sendvars, urb, recvvars, wpc, cancelvars, uaf, protocol, inc, fn, sync, histvars>>

\* connection->state leaves GB_CONNECTION_STATE_ENABLED
ConnectionDisable ==
    /\ ~uaf
    /\ state = "ENABLED"
    /\ state' = "DISABLED"
    /\ UNCHANGED <<opvars, op_cycle, operations, sendvars, urb, recvvars, wpc,
                   cancelvars, owner, uaf, protocol, inc, fn, sync, histvars>>

\* Some context is about to dereference an operation that gb_operation_put
\* has destroyed: the behaviour of the code is undefined from here on, and
\* the model follows it no further
Dereferenced(o) ==
    \/ pc[o] \in {"get_active", "msg_send", "err_put_active", "err_put"}
    \/ owner[o] /\ pc[o] \in {"sent", "failed"}
    \/ urb[o] \in {"inflight", "latched"}
    \/ inc[o].rurb = "inflight"
    \/ (rpc # "idle" /\ rop = o)
    \/ work_pending[o] \/ wpc[o] # "idle"
    \/ cpc[o] # "idle"
    \/ OnList(o)

UseAfterFree(o) ==
    /\ ~uaf /\ Destroyed(o)
    /\ Dereferenced(o)
    /\ uaf' = TRUE
    /\ UNCHANGED <<opvars, connvars, sendvars, urb, recvvars, wpc, cancelvars, owner,
                   sync, protocol, inc, fn, histvars>>

\* ------------------------------------------------- gb_operation_sync_timeout

\* gb_operation_result
gb_operation_result(o) == errno[o]

SyncUnchanged ==
    UNCHANGED <<opvars, connvars, sendvars, urb, recvvars, wpc, cancelvars, owner,
                uaf, protocol, inc, fn, histvars>>

\* lines 1009-1020 and 697-698: the caller enters gb_operation_sync_timeout
\* with a fresh operation and this timeout, and calls
\* gb_operation_request_send
SyncCall(o, t) ==
    /\ ~uaf /\ ~Destroyed(o)
    /\ sync[o].pc = "idle" /\ pc[o] = "created"
    /\ \A p \in Ops : p < o => pc[p] # "created"
    /\ SendEnter(o)
    /\ sync' = [sync EXCEPT ![o].pc = "send", ![o].timeout = t]

\* lines 699-700: gb_operation_request_send has returned
SyncSendReturned(o) ==
    /\ ~uaf /\ ~Destroyed(o)
    /\ sync[o].pc = "send" /\ pc[o] \in {"sent", "failed"}
    /\ sync' = IF pc[o] = "failed"
               THEN [sync EXCEPT ![o].pc = "destroy", ![o].ret = ret[o]]
               ELSE [sync EXCEPT ![o].pc = "wait"]
    /\ SyncUnchanged

\* mutant: the wait returns a positive value without the completion
SyncCompleted_Early(o) ==
    /\ ~uaf /\ ~Destroyed(o)
    /\ sync[o].pc = "wait"
    /\ sync' = [sync EXCEPT ![o].pc = "result", ![o].wait = "completed"]
    /\ SyncUnchanged

\* line 707: wait_for_completion_interruptible_timeout returns a positive
\* value, the callback having completed operation->completion
SyncCompleted(o) ==
    /\ ~uaf /\ ~Destroyed(o)
    /\ sync[o].pc = "wait" /\ ncallback[o] > 0
    /\ sync' = [sync EXCEPT ![o].pc = "result", ![o].wait = "completed"]
    /\ SyncUnchanged

\* mutant: a timeout of 0 expires like any other
SyncTimedOut_ZeroExpires(o) ==
    /\ ~uaf /\ ~Destroyed(o)
    /\ sync[o].pc = "wait" /\ ncallback[o] = 0
    /\ sync' = [sync EXCEPT ![o].pc = "cancel", ![o].wait = "timeout",
                            ![o].code = ETIMEDOUT]
    /\ SyncUnchanged

\* lines 702-705, 712-714: the wait returns 0, the timeout having expired
\* before the completion; a timeout of 0 is MAX_SCHEDULE_TIMEOUT, which
\* never expires
SyncTimedOut(o) ==
    /\ ~uaf /\ ~Destroyed(o)
    /\ sync[o].pc = "wait" /\ ncallback[o] = 0
    /\ sync[o].timeout # 0
    /\ sync' = [sync EXCEPT ![o].pc = "cancel", ![o].wait = "timeout",
                            ![o].code = ETIMEDOUT]
    /\ SyncUnchanged

\* mutant: an interrupted wait cancels with -EINTR
SyncInterrupted_Eintr(o) ==
    /\ ~uaf /\ ~Destroyed(o)
    /\ sync[o].pc = "wait" /\ ncallback[o] = 0
    /\ sync' = [sync EXCEPT ![o].pc = "cancel", ![o].wait = "interrupted",
                            ![o].code = EINTR]
    /\ SyncUnchanged

\* lines 709-711: the wait returns a negative value, a signal having arrived
\* before the completion
SyncInterrupted(o) ==
    /\ ~uaf /\ ~Destroyed(o)
    /\ sync[o].pc = "wait" /\ ncallback[o] = 0
    /\ sync' = [sync EXCEPT ![o].pc = "cancel", ![o].wait = "interrupted",
                            ![o].code = ECANCELED]
    /\ SyncUnchanged

\* lines 711, 714: the call of gb_operation_cancel
SyncCancel(o) ==
    /\ sync[o].pc = "cancel"
    /\ CancelEnter(o, sync[o].code)
    /\ sync' = [sync EXCEPT ![o].pc = "cancelling"]

\* mutant: the response payload is copied whatever the result
SyncResult_CopyAlways(o) ==
    /\ ~uaf /\ ~Destroyed(o)
    /\ sync[o].pc \in {"result", "cancelling"} /\ cpc[o] = "idle"
    /\ sync' = [sync EXCEPT ![o].pc = "destroy", ![o].ret = gb_operation_result(o),
                            ![o].response =
                                [i \in 1..RespSize |-> response[o].payload[i]]]
    /\ SyncUnchanged

\* lines 716 and 1022-1031: gb_operation_cancel, if called, has returned;
\* the result is read and returned, and on success the response payload is
\* copied to the caller's buffer
SyncResult(o) ==
    /\ ~uaf /\ ~Destroyed(o)
    /\ sync[o].pc \in {"result", "cancelling"} /\ cpc[o] = "idle"
    /\ LET r == gb_operation_result(o)
       IN  sync' = [sync EXCEPT ![o].pc = "destroy", ![o].ret = r,
                                ![o].response =
                                    IF r = 0
                                    THEN [i \in 1..RespSize |-> response[o].payload[i]]
                                    ELSE @]
    /\ SyncUnchanged

\* line 1032: gb_operation_destroy drops the caller's reference, and the
\* call returns
SyncDestroy(o) ==
    /\ ~uaf /\ ~Destroyed(o)
    /\ sync[o].pc = "destroy" /\ owner[o]
    /\ gb_operation_put(o)
    /\ owner' = [owner EXCEPT ![o] = FALSE]
    /\ sync' = [sync EXCEPT ![o].pc = "returned"]
    /\ UNCHANGED <<errno, active, id, incoming, req_opid, response, waiters, work_pending,
                   connvars, sendvars, urb, recvvars, wpc, cancelvars, uaf, protocol, inc, fn, histvars>>

\* every step of an operation's contexts but the start of a send
OpStep(o) ==
    \/ SendGetActive(o)
    \/ SendMessageOk(o) \/ SendMessageFail(o)
    \/ SendErrPutActive(o) \/ SendErrPut(o)
    \/ \E status \in SendStatuses : MessageSent(o, status)
    \/ MessageSentQueue(o)
    \/ WorkRun(o) \/ WorkPutActive(o) \/ WorkPut(o)
    \/ \E e \in CancelCodes : CancelCall(o, e)
    \/ CancelQueue(o)
    \/ CancelIncWaiters(o) \/ CancelWait(o) \/ CancelReturn(o)
    \/ OwnerPut(o)
    \/ UseAfterFree(o)

RecvStep ==
    \/ \E f \in Frames : RecvResponse(f)
    \/ RecvLatch \/ RecvCopy \/ RecvPut

Init == InitOps /\ op_cycle = CycleFresh /\ protocol = "none"

\* The main specification: the first MaxSends operations are submitted on an
\* enabled, fresh connection; the transport completes or refuses the sends,
\* delivers up to MaxFrames response frames with any id in use, and the
\* callers cancel up to MaxCancels times.
Next ==
    \/ \E o \in 1..MaxSends : SendBegin(o)
    \/ \E o \in Ops : OpStep(o)
    \/ RecvStep

Spec == Init /\ [][Next]_vars

\* The id specification: every operation is submitted, on a connection whose
\* op_cycle starts at any of CycleStarts; sends complete or fail, completion
\* work runs, the connection may be disabled, and no frame arrives and nobody
\* cancels.
InitIds == InitOps /\ op_cycle \in CycleStarts /\ protocol = "none"

IdStep(o) ==
    \/ SendBegin(o)
    \/ SendGetActive(o)
    \/ SendMessageOk(o) \/ SendMessageFail(o)
    \/ SendErrPutActive(o) \/ SendErrPut(o)
    \/ \E status \in SendStatuses : MessageSent(o, status)
    \/ MessageSentQueue(o)
    \/ WorkRun(o) \/ WorkPutActive(o) \/ WorkPut(o)
    \/ OwnerPut(o)

NextIds ==
    \/ \E o \in Ops : IdStep(o)
    \/ ConnectionDisable

SpecIds == InitIds /\ [][NextIds]_vars

\* The misuse specification: one operation, whose caller also submits it
\* again and cancels it with the unset sentinel as errno.
NextMisuse ==
    \/ SendBegin(1)
    \/ SendAgain(1)
    \/ OpStep(1)
    \/ \E e \in MisuseCodes : CancelCall(1, e)
    \/ RecvStep

SpecMisuse == Init /\ [][NextMisuse]_vars

\* The liveness specification: one operation with the steps of the main
\* specification, where the completion workqueue runs the work it is given,
\* a handler that has started runs to its end, and usb_kill_urb makes the
\* out-URB it kills complete.
NextLive ==
    \/ SendBegin(1)
    \/ OpStep(1)
    \/ RecvStep

KillUrb(o) == cpc[o] = "kill" /\ MessageSent(o, ENOENT)

FairLive ==
    /\ WF_vars(WorkRun(1)) /\ WF_vars(WorkPutActive(1)) /\ WF_vars(WorkPut(1))
    /\ WF_vars(RecvLatch) /\ WF_vars(RecvCopy) /\ WF_vars(RecvPut)
    /\ WF_vars(MessageSentQueue(1))
    /\ WF_vars(KillUrb(1)) /\ WF_vars(CancelQueue(1))

SpecLive == Init /\ [][NextLive]_vars /\ FairLive

\* The cancellation specification: the liveness specification, where also
\* the thread inside gb_operation_cancel keeps running: it registers as
\* waiter, tests the active count, and returns once it has been woken.
FairCancel ==
    /\ WF_vars(CancelIncWaiters(1)) /\ WF_vars(CancelWait(1))
    /\ WF_vars(CancelReturn(1))

SpecCancel == Init /\ [][NextLive]_vars /\ FairLive /\ FairCancel

\* The synchronous specification: one operation is run by a thread calling
\* gb_operation_sync_timeout, with or without a timeout; the
\* transport completes or refuses the sends and delivers up to MaxFrames
\* response frames of the expected or of a larger payload size.
SyncFrames == [opid : {id[o] : o \in Ops} \cup {0}, result : FrameResults,
               psize : {RespSize, RespSize + 1}, byte : FrameBytes]

SyncStep(o) ==
    \/ \E t \in SyncTimeouts : SyncCall(o, t)
    \/ SyncSendReturned(o)
    \/ SyncCompleted(o) \/ SyncTimedOut(o) \/ SyncInterrupted(o)
    \/ SyncCancel(o)
    \/ SyncResult(o)
    \/ SyncDestroy(o)
    \/ SendGetActive(o)
    \/ SendMessageOk(o) \/ SendMessageFail(o)
    \/ SendErrPutActive(o) \/ SendErrPut(o)
    \/ \E status \in SendStatuses : MessageSent(o, status)
    \/ MessageSentQueue(o)
    \/ WorkRun(o) \/ WorkPutActive(o) \/ WorkPut(o)
    \/ CancelQueue(o)
    \/ CancelIncWaiters(o) \/ CancelWait(o) \/ CancelReturn(o)
    \/ UseAfterFree(o)

NextSync ==
    \/ SyncStep(1)
    \/ \E f \in SyncFrames : RecvResponse(f)
    \/ RecvLatch \/ RecvCopy \/ RecvPut

SpecSync == Init /\ [][NextSync]_vars

\* The receive specification: one operation is submitted on a connection
\* with no protocol bound; the transport hands gb_connection_recv
\* up to MaxFrames frames, requests and responses, short, incomplete or
\* whole, the operations above MaxSends serve as incoming ones, and the
\* connection may be disabled at any time.  Nobody cancels.  Requests that
\* are accepted all declare the same size; the request specification has
\* the others.
RecvOpStep(o) ==
    \/ SendGetActive(o)
    \/ SendMessageOk(o) \/ SendMessageFail(o)
    \/ SendErrPutActive(o) \/ SendErrPut(o)
    \/ \E status \in SendStatuses : MessageSent(o, status)
    \/ MessageSentQueue(o)
    \/ WorkRun(o) \/ WorkRunIncoming(o) \/ WorkPutActive(o) \/ WorkPut(o)
    \/ OwnerPut(o)
    \/ UseAfterFree(o)

RecvFrames ==
    {w \in WireFrames : w.resp \/ w.size = HdrSize + RespSize \/ w.len < w.size}

NextRecv ==
    \/ SendBegin(1)
    \/ \E o \in Ops : RecvOpStep(o)
    \/ \E w \in RecvFrames : gb_connection_recv(w)
    \/ RecvRequestActive
    \/ RecvLatch \/ RecvCopy \/ RecvPut
    \/ ConnectionDisable

SpecRecv == Init /\ [][NextRecv]_vars

\* The request specification: the connection has no protocol, a protocol
\* without request handler or one with a handler; the transport hands
\* gb_connection_recv up to MaxFrames frames, the operations above MaxSends
\* serve as incoming ones, their work runs the handler and sends the
\* response, the transport accepts or refuses the response and reports the
\* accepted one sent, and the connection may be disabled at any time.
InitIn == InitOps /\ op_cycle = CycleFresh /\ protocol \in Protocols

InOpStep(o) ==
    \/ WorkRunIncoming(o)
    \/ \E status \in HandlerStatuses, alloc \in BOOLEAN : RequestHandle(o, status, alloc)
    \/ ResponseSend(o)
    \/ ResponseGetActive(o)
    \/ \E ok \in BOOLEAN : ResponseMessageSend(o, ok)
    \/ \E status \in SendStatuses : ResponseSent(o, status)
    \/ WorkPutActive(o) \/ WorkPut(o)

NextIn ==
    \/ \E w \in WireFrames : gb_connection_recv(w)
    \/ RecvRequestActive
    \/ \E o \in Ops : InOpStep(o)
    \/ ConnectionDisable

SpecIn == InitIn /\ [][NextIn]_vars

\* The completion specification: operation 1 is submitted and accepted by
\* the transport and its out-URB completes with any status, while whole
\* frames arrive on the enabled connection, requests with id 1 that the
\* protocol's handler answers and successful responses to operation 1; the
\* transport accepts every response and reports it sent with any status.
InitSent == InitOps /\ op_cycle = CycleFresh /\ protocol = "handler"

SentFrames ==
    {w \in WireFrames :
        /\ w.size = HdrSize + RespSize /\ w.len = w.size
        /\ w.result = GB_OP_SUCCESS
        /\ w.opid = IF w.resp THEN id[1] ELSE 1}

NextSent ==
    \/ SendBegin(1) \/ SendGetActive(1) \/ SendMessageOk(1)
    \/ \E status \in SendStatuses : MessageSent(1, status)
    \/ MessageSentQueue(1)
    \/ \E w \in SentFrames : gb_connection_recv(w)
    \/ RecvRequestActive \/ RecvLatch \/ RecvCopy \/ RecvPut
    \/ \E o \in Ops :
          \/ \E status \in HandlerStatuses : RequestHandle(o, status, FALSE)
          \/ ResponseSend(o) \/ ResponseGetActive(o) \/ ResponseMessageSend(o, TRUE)
          \/ \E status \in SendStatuses : ResponseSent(o, status)
          \/ WorkRun(o) \/ WorkPutActive(o) \/ WorkPut(o)

SpecSent == InitSent /\ [][NextSent]_vars

\* The status specification: requests arrive on a connection whose protocol
\* has a request handler, and the handler returns any of HandlerStatuses or
\* one of the two values gb_operation_result_set reserves; the response is
\* sent, accepted or refused by the transport, and reported sent.
NextStatus ==
    \/ \E w \in {f \in SentFrames : ~f.resp} : gb_connection_recv(w)
    \/ RecvRequestActive
    \/ \E o \in Ops :
          \/ \E status \in HandlerStatuses \cup {EBADR, EINPROGRESS}, alloc \in BOOLEAN :
                 RequestHandle(o, status, alloc)
          \/ ResponseSend(o) \/ ResponseGetActive(o)
          \/ \E ok \in BOOLEAN : ResponseMessageSend(o, ok)
          \/ \E status \in SendStatuses : ResponseSent(o, status)
          \/ WorkPutActive(o) \/ WorkPut(o)

SpecStatus == InitSent /\ [][NextStatus]_vars

\* ------------------------------------------------------- functions, alone

\* a size_t of a 32-bit build, as two 16-bit halves
Size(n) == [hi |-> n \div U16_MOD, lo |-> n % U16_MOD]

\* size_t addition of a small number, wrapping at 2^32
SizeAdd(a, n) ==
    [hi |-> (a.hi + ((a.lo + n) \div U16_MOD)) % U16_MOD, lo |-> (a.lo + n) % U16_MOD]

SizeGt(a, b) == a.hi > b.hi \/ (a.hi = b.hi /\ a.lo > b.lo)

\* the limits greybus_create_hd holds hd->buffer_size_max to: a header alone,
\* and what the 16-bit size field can say
GB_OPERATION_MESSAGE_SIZE_MIN == HdrSize
GB_OPERATION_MESSAGE_SIZE_MAX == U16_MAX

\* buffer_size_max arguments of greybus_create_hd
BufferSizes == {Size(HdrSize - 1), Size(HdrSize), Size(16), Size(U16_MAX),
                Size(U16_MOD), [hi |-> 65535, lo |-> 65535]}

\* payload sizes asked of gb_operation_create: none, small, around the largest
\* that fits, and the largest size_t values
PayloadSizes == {Size(0), Size(1), Size(8), Size(9), Size(U16_MAX - HdrSize),
                 Size(U16_MAX - HdrSize + 1), [hi |-> 65535, lo |-> 65535 - HdrSize],
                 [hi |-> 65535, lo |-> 65536 - HdrSize], [hi |-> 65535, lo |-> 65535]}

\* core.c lines 185-203 and 215: the host device greybus_create_hd makes
greybus_create_hd(buffer_size_max) ==
    IF SizeGt(Size(GB_OPERATION_MESSAGE_SIZE_MIN), buffer_size_max)
    THEN [created |-> FALSE, buffer_size_max |-> Size(0)]
    ELSE [created |-> TRUE,
          buffer_size_max |-> IF SizeGt(buffer_size_max, Size(GB_OPERATION_MESSAGE_SIZE_MAX))
                              THEN Size(GB_OPERATION_MESSAGE_SIZE_MAX)
                              ELSE buffer_size_max]

\* no message: gb_operation_message_alloc returned NULL
NoBuffer == [allocated |-> FALSE, buffer |-> Size(0), size |-> 0, payload_size |-> Size(0)]

\* lines 320-343 and 287-303: gb_operation_message_alloc of an outbound
\* message, the allocator having memory: the bytes of its buffer, the size
\* field of its header and its payload_size
gb_operation_message_alloc(hd, payload_size) ==
    LET message_size == SizeAdd(payload_size, HdrSize)
    IN  IF SizeGt(message_size, hd.buffer_size_max) THEN NoBuffer
        ELSE [allocated |-> TRUE, buffer |-> message_size, size |-> message_size.lo,
              payload_size |-> payload_size]

\* lines 478-522: gb_operation_create of an outgoing operation
gb_operation_create(hd, request_size, response_size) ==
    LET request == gb_operation_message_alloc(hd, request_size)
        resp == gb_operation_message_alloc(hd, response_size)
    IN  IF request.allocated /\ resp.allocated
        THEN [created |-> TRUE, request |-> request, response |-> resp]
        ELSE [created |-> FALSE, request |-> NoBuffer, response |-> NoBuffer]

FnUnchanged ==
    UNCHANGED <<opvars, connvars, sendvars, urb, recvvars, wpc, cancelvars, owner,
                uaf, sync, protocol, inc, histvars>>

\* status bytes and errno values the maps are called with
StatusBytes == 0..255
ErrnoValues == (-140)..1

\* values of the errno field and of the result argument of
\* gb_operation_result_set
ResultCodes == {EBADR, EINPROGRESS, 0, EIO, EILSEQ, ETIMEDOUT}

CallStatusMap(status) ==
    /\ fn' = [op |-> "status_map", x |-> status, y |-> 0, z |-> 0,
              r1 |-> gb_operation_status_map(status),
              r2 |-> gb_operation_errno_map(gb_operation_status_map(status))]
    /\ FnUnchanged

CallErrnoMap(e) ==
    /\ fn' = [op |-> "errno_map", x |-> e, y |-> 0, z |-> 0,
              r1 |-> gb_operation_errno_map(e),
              r2 |-> gb_operation_status_map(gb_operation_errno_map(e))]
    /\ FnUnchanged

CallResultSet(prev, result) ==
    /\ fn' = [op |-> "result_set", x |-> prev, y |-> result, z |-> 0,
              r1 |-> gb_operation_result_set(prev, result).errno,
              r2 |-> gb_operation_result_set(prev, result).ret]
    /\ FnUnchanged

CallCreate(buffer_size_max, request_size, response_size) ==
    LET hd == greybus_create_hd(buffer_size_max)
    IN  /\ fn' = [op |-> "create", x |-> buffer_size_max, y |-> request_size,
                  z |-> response_size, r1 |-> hd,
                  r2 |-> IF hd.created
                         THEN gb_operation_create(hd, request_size, response_size)
                         ELSE [created |-> FALSE, request |-> NoBuffer,
                               response |-> NoBuffer]]
        /\ FnUnchanged

\* The function specification: the status maps, gb_operation_result_set and
\* the creation of a host device and of an operation on it are called, one
\* call after another, with arguments from the sets above.
NextFn ==
    \/ \E status \in StatusBytes : CallStatusMap(status)
    \/ \E e \in ErrnoValues : CallErrnoMap(e)
    \/ \E prev \in ResultCodes, result \in ResultCodes : CallResultSet(prev, result)
    \/ \E b \in BufferSizes, q \in PayloadSizes, r \in PayloadSizes : CallCreate(b, q, r)

SpecFn == Init /\ [][NextFn]_vars

\* ------------------------------------------------- es1 transport, CPort id
\* svc.h line 169: the number of CPorts of the es1 host device
CPORT_COUNT == 256

\* CPort ids a caller can pass, one past the valid range and one that does
\* not fit a byte included
CportIds == 0..(CPORT_COUNT + 1)

\* bytes that can arrive in pad[0] of a received frame
PadBytes == 0..255

\* usb_submit_urb results and URB completion statuses
SubmitResults == {0, ENOMEM}
UrbStatuses == {0, EAGAIN, ENOENT}

\* cport_id_valid with hd->num_cports = CPORT_COUNT
cport_id_valid(cport_id) == cport_id < CPORT_COUNT

\* lines 288-292: pad[0] is one byte, the store keeps the low eight bits
gb_message_cport_pack(cport_id) == cport_id % 256

\* an unpack that leaves pad[0] as it found it
gb_message_cport_unpack_NoClear(pad) == [cport_id |-> pad, pad |-> pad]

\* lines 301-308: the id read from pad[0], and pad[0] afterwards
gb_message_cport_unpack(pad) == [cport_id |-> pad, pad |-> 0]

\* The transport's view of one message is kept in fn: r1 is pad[0] of the
\* message header, y the value last returned or reported, r2 what the core
\* was handed (whether it was called, and the pad[0] it could read).
NotCalled == [called |-> FALSE, pad |-> 0, cport_id |-> 0]

\* lines 314-369: message_send
message_send(cport_id, free_urb, submit) ==
    /\ ~uaf
    /\ fn.op # "cport_inflight"
    /\ LET packed == gb_message_cport_pack(cport_id)
       IN  fn' = IF ~cport_id_valid(cport_id)
                 THEN [op |-> "cport_refused", x |-> cport_id, y |-> EINVAL,
                       z |-> 0, r1 |-> fn.r1, r2 |-> NotCalled]
                 ELSE IF ~free_urb
                 THEN [op |-> "cport_refused", x |-> cport_id, y |-> ENOMEM,
                       z |-> 0, r1 |-> fn.r1, r2 |-> NotCalled]
                 ELSE IF submit # 0
                 THEN [op |-> "cport_refused", x |-> cport_id, y |-> submit,
                       z |-> packed, r1 |-> 0, r2 |-> NotCalled]
                 ELSE [op |-> "cport_inflight", x |-> cport_id, y |-> 0,
                       z |-> packed, r1 |-> packed, r2 |-> NotCalled]
    /\ FnUnchanged

\* lines 522-543: cport_out_callback clears pad[0], then reports the
\* completion to the core through greybus_message_sent
cport_out_callback(status) ==
    /\ ~uaf
    /\ fn.op = "cport_inflight"
    /\ LET cleared == 0
       IN  fn' = [op |-> "cport_sent", x |-> fn.x, y |-> status, z |-> fn.z,
                  r1 |-> cleared,
                  r2 |-> [called |-> TRUE, pad |-> cleared, cport_id |-> fn.x]]
    /\ FnUnchanged

\* lines 483-520: cport_in_callback on a frame of len bytes whose pad[0]
\* holds the byte pad
cport_in_callback(status, len, pad) ==
    /\ ~uaf
    /\ fn.op # "cport_inflight"
    /\ LET u == gb_message_cport_unpack(pad)
       IN  fn' = IF status # 0 \/ len < HdrSize
                 THEN [op |-> "cport_dropped", x |-> pad, y |-> status, z |-> len,
                       r1 |-> fn.r1, r2 |-> NotCalled]
                 ELSE IF cport_id_valid(u.cport_id)
                 THEN [op |-> "cport_rcvd", x |-> pad, y |-> status, z |-> len,
                       r1 |-> fn.r1,
                       r2 |-> [called |-> TRUE, pad |-> u.pad,
                               cport_id |-> u.cport_id]]
                 ELSE [op |-> "cport_dropped", x |-> pad, y |-> status, z |-> len,
                       r1 |-> fn.r1, r2 |-> NotCalled]
    /\ FnUnchanged

\* The transport specification: one message is sent through message_send
\* and completed by cport_out_callback, and frames arrive through
\* cport_in_callback.
NextCport ==
    \/ \E c \in CportIds, u \in BOOLEAN, s \in SubmitResults : message_send(c, u, s)
    \/ \E s \in UrbStatuses : cport_out_callback(s)
    \/ \E s \in UrbStatuses, len \in {HdrSize - 1, HdrSize}, p \in PadBytes :
           cport_in_callback(s, len, p)

SpecCport == Init /\ [][NextCport]_vars

\* ------------------------------------------- received sizes, function level
\* size_t subtraction of a small number, wrapping at 2^32
SizeSub(a, n) ==
    IF a.lo >= n THEN [hi |-> a.hi, lo |-> a.lo - n]
    ELSE [hi |-> (a.hi + U16_MOD - 1) % U16_MOD, lo |-> a.lo + U16_MOD - n]

\* line 563: request_size of gb_operation_create_incoming
gb_operation_create_incoming(size) == SizeSub(Size(size), HdrSize)

\* lines 894-930: gb_connection_recv on a buffer of len bytes whose header
\* declares size bytes; a frame that is not dropped goes to the response
\* path or, through gb_connection_recv_request, to
\* gb_operation_create_incoming with the declared size
CallRecv(len, size, resp) ==
    LET cause == DropCause([len |-> len, size |-> size])
    IN  /\ fn' = [op |-> "recv", x |-> len, y |-> size,
                  z |-> IF cause # "none" THEN cause
                        ELSE IF resp THEN "response" ELSE "request",
                  r1 |-> IF cause = "none" THEN size ELSE 0,
                  r2 |-> IF cause = "none" /\ ~resp
                         THEN gb_operation_create_incoming(size) ELSE Size(0)]
        /\ FnUnchanged

\* The receive-size specification: gb_connection_recv is called with
\* buffers around the header size declaring sizes from 0 on.
NextSize ==
    \E len \in (HdrSize - 1)..(HdrSize + 4), size \in 0..(HdrSize + 4),
       resp \in BOOLEAN : CallRecv(len, size, resp)

SpecSize == Init /\ [][NextSize]_vars

\* ------------------------------------------------------------------ claims

\* the result field holds a final code: neither unset nor in progress
IsFinal(e) == e \notin {EBADR, EINPROGRESS}

\* some context has called gb_operation_result_set on o with a final code and
\* is still past that call
CalledResultSet(o) ==
    \/ cpc[o] # "idle"
    \/ rpc \in {"copy", "put"} /\ rop = o
    \/ urb[o] = "latched"

\* C1: of the final-code gb_operation_result_set calls racing on an operation
\* in progress exactly one returns true, the result is that call's code from
\* then on, and every other call returns false and leaves it alone.
C1_ExactlyOneLatchWins ==
    \A o \in Ops :
        /\ nwins[o] <= 1
        /\ nwins[o] = 1 => IsFinal(errno[o]) /\ errno[o] = winner[o].code
        /\ nwins[o] = 0 => ~IsFinal(errno[o])
        /\ CalledResultSet(o) => nwins[o] = 1

\* the transport's error won while a response handler and a cancel call, both
\* past their own attempt, lost
C1_Witness ==
    /\ winner[1].by = "sent"
    /\ rpc = "put" /\ rop = 1
    /\ cpc[1] = "inc"
    /\ errno[1] = ENOENT

\* C2: the completion work of an operation is queued at most once and its
\* callback is invoked at most once, whatever frames, send errors and cancels
\* arrive.
C2_CompletionAtMostOnce ==
    \A o \in Ops : nqueued[o] <= 1 /\ ncallback[o] <= 1

\* two frames and two cancel calls were spent on an operation whose callback
\* ran once
C2_Witness ==
    /\ nframes = MaxFrames /\ ncancels = MaxCancels
    /\ urb[1] = "done"
    /\ ncallback[1] = 1 /\ nqueued[1] = 1
    /\ wpc[1] = "idle" /\ cpc[1] = "idle" /\ rpc = "idle"

\* a further gb_operation_request_send enters on o
Resent(o) == pc[o] \in {"sent", "failed"} /\ pc'[o] = "get_active"

\* C3 as stated: once the result is FINAL no later write, whatever its value,
\* changes it.
C3_FinalNeverChanges ==
    [][\A o \in Ops : IsFinal(errno[o]) => errno'[o] = errno[o]]_vars

\* C3 amended: a FINAL result stays FINAL; writes of a final code or of the
\* unset sentinel leave it unchanged, and only the in-progress write of a
\* further gb_operation_request_send replaces it, by -EILSEQ.
C3_FinalStaysFinal ==
    [][\A o \in Ops :
          IsFinal(errno[o]) =>
              \/ errno'[o] = errno[o]
              \/ Resent(o) /\ errno'[o] = EILSEQ]_vars

\* the operation was timed out by a cancel and then submitted again
C3_Witness ==
    /\ nsends[1] = 2
    /\ winner[1] = [by |-> "cancel", code |-> ETIMEDOUT]
    /\ errno[1] = EILSEQ

\* C4: no two operations on the active list have the same id, also after the
\* cycle counter has wrapped.
C4_ActiveIdsDistinct ==
    \A o1, o2 \in Ops :
        (o1 # o2 /\ OnList(o1) /\ OnList(o2)) => id[o1] # id[o2]

\* C5: every assigned id is in 1..65535 and the request header's
\* operation_id field, read back as little-endian, is the same value.
C5_IdRangeAndHeader ==
    \A o \in Ops :
        nsends[o] > 0 =>
            /\ id[o] \in 1..U16_MAX
            /\ le16_to_cpu(req_opid[o]) = id[o]
            /\ Len(req_opid[o]) = 2
            /\ \A i \in 1..2 : req_opid[o][i] \in 0..255

\* the largest id was assigned, and the one after it is 1 again
C5_Witness ==
    /\ id[1] = U16_MAX /\ req_opid[1] = <<255, 255>>
    /\ id[2] = 1 /\ req_opid[2] = <<1, 0>>

\* C6: when gb_operation_cancel returns the operation's active count is zero
\* and the operation is off the active list, whether or not the call won.
C6_CancelReturnsInactive ==
    \A o \in Ops : cpc[o] = "dec" => active[o] = 0 /\ ~OnList(o)

\* a cancel call that lost to a response is about to return, after sleeping
\* until the completion work dropped the active count
C6_Witness ==
    /\ cpc[1] = "dec"
    /\ winner[1].by = "recv"
    /\ ncallback[1] = 1
    /\ waiters[1] = 1

\* C7: when a cancel call wins the latch, the callback is delivered the errno
\* passed to it, the transport's message_cancel is invoked exactly once for
\* the request, and the completion work is queued exactly once.
C7_CancelWins ==
    \A o \in Ops :
        winner[o].by = "cancel" =>
            /\ errno[o] = winner[o].code
            /\ nmsg_cancel[o] = 1
            /\ nqueued[o] = IF cpc[o] = "kill" THEN 0 ELSE 1
            /\ ncallback[o] > 0 => cb_result[o] = winner[o].code

\* the callback has run with the errno of the winning cancel call, and a
\* second cancel call has been made as well
C7_Witness ==
    /\ winner[1] = [by |-> "cancel", code |-> ETIMEDOUT]
    /\ ncallback[1] = 1 /\ cb_result[1] = ETIMEDOUT
    /\ ncancels = 2
    /\ nframes > 0

\* C8: a gb_operation_cancel call that finds the result FINAL does not call
\* message_cancel, does not queue the completion work, leaves the result
\* unchanged, and gets to its return only with the active count at zero.
C8_CancelIdempotent ==
    [][\A o \in Ops :
          (/\ cpc'[o] # cpc[o]
           /\ cpc[o] # "kill"
           /\ cpc[o] = "idle" => IsFinal(errno[o]))
          => /\ nmsg_cancel'[o] = nmsg_cancel[o]
             /\ nqueued'[o] = nqueued[o]
             /\ work_pending'[o] = work_pending[o]
             /\ errno'[o] = errno[o]
             /\ cpc[o] = "idle" => cpc'[o] = "inc"
             /\ cpc'[o] = "dec" => active[o] = 0]_vars

\* a second cancel call, made after the first had won, is about to return
C8_Witness ==
    /\ ncancels = 2
    /\ cpc[1] = "dec"
    /\ winner[1].by = "cancel"
    /\ nmsg_cancel[1] = 1 /\ nqueued[1] = 1

\* what a response handler may change of the operations besides a reference
RecvKeeps ==
    /\ errno' = errno
    /\ response' = response
    /\ work_pending' = work_pending
    /\ nqueued' = nqueued

\* C9: a response frame that loses the latch changes neither the result nor
\* the response buffer and queues no work; a frame is handled only for an
\* operation that is on the active list and has the frame's id, and a frame
\* that is dropped touches no operation.
C9_LateResponseHarmless ==
    [][/\ (rpc = "latch" /\ rpc' # "latch" /\ IsFinal(errno[rop]))
          => rpc' = "put" /\ RecvKeeps
       /\ (rpc = "put" /\ rpc' # "put") => RecvKeeps
       /\ nframes' # nframes
          => /\ RecvKeeps
             /\ rpc' # "idle" => OnList(rop') /\ id[rop'] = rframe'.opid
             /\ rpc' = "idle" => opvars' = opvars]_vars

\* the second of two frames for the same operation lost: the response buffer
\* still holds the first one's status byte
C9_Witness ==
    /\ rpc = "put"
    /\ nframes = 2
    /\ winner[rop].by = "recv"
    /\ rframe.opid = id[rop]
    /\ response[rop].hdr.result # rframe.result

\* C10: a gb_operation_request_send refused by the transport returns with
\* the operation off the active list, its active and reference counts as on
\* entry, and without the completion work queued or the callback invoked,
\* whatever frames arrived meanwhile.
C10_FailedSendLeavesNoTrace ==
    \A o \in Ops :
        (pc[o] = "failed" /\ ret[o] \in SendErrors /\ owner[o]) =>
            /\ nqueued[o] = 0 /\ ncallback[o] = 0
            /\ ~OnList(o)
            /\ active[o] = pre[o].active
            /\ ~(rpc # "idle" /\ rop = o) => kref[o] = pre[o].kref

\* C11: on a connection that is not enabled gb_operation_request_send returns
\* -ENOTCONN without calling the transport's message_send, without linking
\* the operation, with its active count still 0 and the reference taken for
\* the send released.
C11_DisabledSendRefused ==
    [][\A o \in Ops :
          /\ (pc[o] = "get_active" /\ pc'[o] # "get_active" /\ state # "ENABLED")
             => /\ pc'[o] = "err_put" /\ ret'[o] = ENOTCONN
                /\ active'[o] = 0 /\ operations' = operations /\ ~OnList(o)
                /\ urb'[o] = "none"
          /\ (pc[o] = "err_put" /\ ret[o] = ENOTCONN /\ pc'[o] # "err_put")
             => /\ pc'[o] = "failed" /\ ret'[o] = ENOTCONN
                /\ kref'[o] = pre[o].kref
                /\ active'[o] = 0 /\ operations' = operations /\ ~OnList(o)
                /\ urb'[o] = "none"]_vars

\* a send on the disabled connection has returned -ENOTCONN
C11_Witness ==
    /\ state = "DISABLED"
    /\ pc[1] = "failed" /\ ret[1] = ENOTCONN
    /\ kref[1] = 1 /\ active[1] = 0 /\ urb[1] = "none"

\* a matching response has arrived, the transport has reported a send error
\* or gb_operation_cancel has been called for a submitted operation
Triggered(o) ==
    /\ pc[o] = "sent"
    /\ nwins[o] = 1 \/ (rpc # "idle" /\ rop = o) \/ cpc[o] # "idle"

\* C12: once gb_operation_request_send has returned 0 and a matching response,
\* a send error or a cancel call has followed, the callback is eventually
\* invoked with a final result and the operation eventually leaves the
\* active list, provided the workqueue runs queued work.
C12_CompletionEventually ==
    \A o \in Ops :
        Triggered(o) ~>
            (ncallback[o] = 1 /\ IsFinal(cb_result[o]) /\ active[o] = 0 /\ ~OnList(o))

\* the operation completed by a send error has left the list
C12_Witness ==
    /\ pc[1] = "sent" /\ winner[1].by = "sent"
    /\ ncallback[1] = 1 /\ cb_result[1] = ENOENT
    /\ active[1] = 0 /\ ~OnList(1)

\* gb_operation_request_send_sync_timeout has its return value
SyncReturning(o) == sync[o].pc \in {"destroy", "returned"}

\* C13: when a nonzero timeout expires and neither a response frame nor a
\* send error has completed the operation, the call cancels it, returns
\* -ETIMEDOUT and the operation is inactive on return; with timeout 0 the
\* wait never ends by the timer and no cancel carries -ETIMEDOUT.
C13_SyncTimeout ==
    \A o \in Ops :
        /\ (SyncReturning(o) /\ sync[o].wait = "timeout"
                /\ winner[o].by \notin {"recv", "sent"})
           => /\ sync[o].timeout # 0
              /\ winner[o] = [by |-> "cancel", code |-> ETIMEDOUT]
              /\ nmsg_cancel[o] = 1
              /\ sync[o].ret = ETIMEDOUT
              /\ active[o] = 0 /\ ~OnList(o)
        /\ sync[o].timeout = 0
           => /\ sync[o].wait # "timeout"
              /\ winner[o].by = "cancel" => winner[o].code # ETIMEDOUT

\* a call with a timeout has returned -ETIMEDOUT with no frame delivered
C13_Witness ==
    /\ sync[1].pc = "returned" /\ sync[1].wait = "timeout"
    /\ sync[1].timeout = 1000
    /\ sync[1].ret = ETIMEDOUT
    /\ nframes = 0 /\ urb[1] = "done"

\* C14 as stated: an interrupted wait cancels the operation with the
\* taxonomy's "interrupted" code (-EINTR, GB_OP_INTERRUPTED) and the call
\* returns that code.
C14_InterruptedReturnsEintr ==
    \A o \in Ops :
        (SyncReturning(o) /\ sync[o].wait = "interrupted")
            => sync[o].code = EINTR /\ sync[o].ret = EINTR

\* C14 amended: an interrupted wait calls gb_operation_cancel with
\* -ECANCELED, and the call returns the operation's final result: -ECANCELED
\* when that cancel won the latch, else the code a response or a send error
\* had latched before it.
C14_InterruptedCancels ==
    \A o \in Ops :
        /\ (sync[o].wait = "interrupted" /\ sync[o].pc # "wait")
           => /\ sync[o].code = ECANCELED
              /\ winner[o].by = "cancel" => winner[o].code = ECANCELED
        /\ (SyncReturning(o) /\ sync[o].wait = "interrupted")
           => /\ IsFinal(sync[o].ret)
              /\ sync[o].ret = winner[o].code
              /\ winner[o].by \in {"cancel", "recv", "sent"}
              /\ active[o] = 0 /\ ~OnList(o)

\* an interrupted call whose cancel lost to a response returns the
\* response's result
C14_Witness ==
    /\ sync[1].pc = "returned" /\ sync[1].wait = "interrupted"
    /\ winner[1] = [by |-> "recv", code |-> EINVAL]
    /\ sync[1].ret = EINVAL

\* C15: after a successful submit the value gb_operation_result reads, and
\* the call returns, is a final code, however the wait ended; when it ended
\* by completion the callback has run.
C15_SyncReturnsFinal ==
    \A o \in Ops :
        /\ (sync[o].pc \in {"result", "cancelling"} /\ cpc[o] = "idle")
           => IsFinal(gb_operation_result(o))
        /\ (SyncReturning(o) /\ pc[o] = "sent")
           => /\ IsFinal(sync[o].ret)
              /\ sync[o].wait \in {"completed", "timeout", "interrupted"}
        /\ sync[o].wait = "completed" => ncallback[o] >= 1

\* a call whose wait ended by completion has returned success
C15_Witness ==
    /\ sync[1].pc = "returned" /\ sync[1].wait = "completed"
    /\ sync[1].ret = 0 /\ ncallback[1] = 1

\* C16: the caller's response buffer is written only when the result is 0;
\* after every error outcome it holds what it held before the call.
C16_BufferOnlyOnSuccess ==
    \A o \in Ops :
        /\ sync[o].response # CallerBuffer => SyncReturning(o) /\ sync[o].ret = 0
        /\ (SyncReturning(o) /\ sync[o].ret # 0) => sync[o].response = CallerBuffer

\* a call answered by a frame of the wrong size has returned -EMSGSIZE with
\* the caller's buffer as it was
C16_Witness ==
    /\ sync[1].pc = "returned" /\ sync[1].ret = EMSGSIZE
    /\ sync[1].response = CallerBuffer
    /\ response[1].hdr.psize = RespSize + 1

\* C17: a synchronous operation whose send succeeded and whose first
\* completing event is a response frame with its id, status success and the
\* expected size returns success, and the caller's buffer equals the frame's
\* payload byte for byte.
C17_ResponseRoundTrip ==
    \A o \in Ops :
        (/\ SyncReturning(o)
         /\ pc[o] = "sent"
         /\ answer[o] # NoFrame
         /\ answer[o].opid = id[o]
         /\ answer[o].result = GB_OP_SUCCESS
         /\ answer[o].psize = RespSize)
        => /\ sync[o].ret = 0
           /\ sync[o].response = FramePayload(answer[o])
           /\ sync[o].response # CallerBuffer

\* the call has returned success with the frame's bytes in the buffer
C17_Witness ==
    /\ sync[1].pc = "returned" /\ sync[1].wait = "completed"
    /\ answer[1].result = GB_OP_SUCCESS /\ answer[1].psize = RespSize
    /\ sync[1].ret = 0
    /\ sync[1].response = [i \in 1..RespSize |-> 186 + i]

\* gb_connection_recv's three checks pass on the frame
WellFormed(w) == state = "ENABLED" /\ w.len >= HdrSize /\ w.size <= w.len

\* C18: a gb_connection_recv call made while the connection is not enabled,
\* with fewer bytes than a header, or with a header declaring more bytes
\* than were received changes no connection or operation state: a step that
\* hands a frame on, creating an operation or taking one from the list, is
\* the step of no such call, and the step that refuses a frame creates no
\* operation, latches no result, writes no buffer and queues no work.
C18_BadFrameChangesNothing ==
    [][/\ (nframes' # nframes \/ (rpc = "idle" /\ rpc' # "idle"))
          => \A w \in WireFrames : ~WellFormed(w) => ~gb_connection_recv(w)
       /\ drops' # drops
          => /\ \E w \in WireFrames : ~WellFormed(w) /\ gb_connection_recv(w)
             /\ UNCHANGED <<opvars, connvars, sendvars, urb, wpc, cancelvars, owner,
                            uaf, protocol, inc, fn, sync, histvars>>
             /\ UNCHANGED <<rpc, rop, rframe, nframes>>]_vars

\* frames have been refused for each of the three reasons, the short and the
\* incomplete ones while an operation was waiting for its response
C18_Witness ==
    /\ drops = {"disabled", "short", "incomplete"}
    /\ OnList(1) /\ errno[1] = EINPROGRESS /\ response[1] = FreshResponse
    /\ nqueued[1] = 0

\* the outgoing operations of the list that carry the id
Outgoing(operation_id) ==
    {o \in Ops : OnList(o) /\ ~incoming[o] /\ id[o] = operation_id}

\* C19: a response frame that passes gb_connection_recv's checks is matched
\* to an outgoing operation of the list with its id; when there is none the
\* frame is dropped and no operation changes; and an incoming operation,
\* whatever its id, is never matched, latched or completed by a response
\* frame.
C19_ResponseMatchesOutgoingOnly ==
    [][/\ nframes' # nframes
          => \A w \in WireFrames :
                (w.resp /\ WellFormed(w) /\ gb_connection_recv(w))
                => IF Outgoing(w.opid) = {}
                   THEN opvars' = opvars /\ rpc' = "idle" /\ histvars' = histvars
                   ELSE /\ rpc' = "latch" /\ rop' \in Outgoing(w.opid)
                        /\ rframe' = ResponseFrame(w)
       /\ \A o \in Ops :
             incoming'[o]
             => /\ ~(rpc' \in {"latch", "copy", "put"} /\ rop' = o)
                /\ winner'[o].by = "none" /\ answer'[o] = NoFrame
                /\ response'[o] = FreshResponse
                /\ ncallback'[o] = 0]_vars

\* a response frame has been matched to the outgoing operation with its id
\* although an incoming operation with the same id comes first in the list
C19_Witness ==
    /\ Len(operations) = 2
    /\ incoming[operations[1]] /\ ~incoming[operations[2]]
    /\ id[operations[1]] = id[operations[2]]
    /\ rpc = "latch" /\ rop = operations[2]
    /\ rframe.opid = id[operations[1]]

\* C20: when a response frame wins the latch, a success status with a size
\* other than header plus expected payload makes the result -EMSGSIZE, a
\* status other than success makes it the mapped, nonzero code, and in both
\* cases the header alone reaches the response message; the payload is
\* copied only for a success status with exactly the expected size, the
\* result then being 0.
C20_WinningResponseResult ==
    [][/\ (rpc = "latch" /\ rpc' = "copy")
          => /\ rframe.result = GB_OP_SUCCESS /\ rframe.psize # RespSize
                => errno'[rop] = EMSGSIZE
             /\ rframe.result # GB_OP_SUCCESS
                => /\ errno'[rop] = gb_operation_status_map(rframe.result)
                   /\ errno'[rop] # 0 /\ IsFinal(errno'[rop])
             /\ rframe.result = GB_OP_SUCCESS /\ rframe.psize = RespSize
                => errno'[rop] = 0
       /\ (rpc = "copy" /\ rpc' = "put")
          => /\ response'[rop].hdr = [opid |-> rframe.opid, result |-> rframe.result,
                                      psize |-> rframe.psize]
             /\ IF rframe.result = GB_OP_SUCCESS /\ rframe.psize = RespSize
                THEN response'[rop].payload = FramePayload(rframe)
                ELSE response'[rop].payload = response[rop].payload
       /\ (response' # response) => (rpc = "copy" /\ rpc' = "put")]_vars

\* a success frame of the wrong size has won the latch: the result is
\* -EMSGSIZE, its header is in the response message and its payload is not
C20_Witness ==
    /\ rpc = "put"
    /\ rframe.result = GB_OP_SUCCESS /\ rframe.psize = RespSize + 1
    /\ errno[rop] = EMSGSIZE /\ winner[rop].by = "recv"
    /\ response[rop].hdr.psize = RespSize + 1
    /\ response[rop].payload = FreshResponse.payload

\* the ten named statuses other than unknown-error, and their errno values
NamedStatuses ==
    {GB_OP_SUCCESS, GB_OP_INTERRUPTED, GB_OP_TIMEOUT, GB_OP_NO_MEMORY,
     GB_OP_PROTOCOL_BAD, GB_OP_OVERFLOW, GB_OP_INVALID, GB_OP_RETRY,
     GB_OP_NONEXISTENT, GB_OP_MALFUNCTION}

NamedErrnos ==
    {0, EINTR, ETIMEDOUT, ENOMEM, EPROTONOSUPPORT, EMSGSIZE, EINVAL, EAGAIN, ENODEV,
     EILSEQ}

\* C27: for each of the ten named statuses gb_operation_errno_map undoes
\* gb_operation_status_map, for each of their ten errno values the converse
\* holds, every other status byte maps to -EIO and every other errno to the
\* unknown-error status.
C27_StatusMapBijection ==
    /\ fn.op = "status_map"
       => /\ fn.x \in NamedStatuses => fn.r1 \in NamedErrnos /\ fn.r2 = fn.x
          /\ fn.x \notin NamedStatuses => fn.r1 = EIO /\ fn.r2 = GB_OP_UNKNOWN_ERROR
    /\ fn.op = "errno_map"
       => /\ fn.x \in NamedErrnos => fn.r1 \in NamedStatuses /\ fn.r2 = fn.x
          /\ fn.x \notin NamedErrnos => fn.r1 = GB_OP_UNKNOWN_ERROR /\ fn.r2 = EIO

\* the malfunction status has gone to -EILSEQ and back
C27_Witness ==
    /\ fn.op = "status_map" /\ fn.x = GB_OP_MALFUNCTION
    /\ fn.r1 = EILSEQ /\ fn.r2 = GB_OP_MALFUNCTION

\* C29: a final code written while the result is still UNSET is recorded as
\* -EILSEQ.
C29_FinalOnUnsetIsEilseq ==
    (fn.op = "result_set" /\ fn.x = EBADR /\ fn.y # EINPROGRESS)
        => fn.r1 = EILSEQ

\* C30: -EBADR written as a final code while the result is in progress
\* records -EILSEQ and the call returns true, and the in-progress marker
\* written when the result is not UNSET records -EILSEQ.
C30_LogicErrorsBecomeEilseq ==
    fn.op = "result_set"
    => /\ (fn.x = EINPROGRESS /\ fn.y = EBADR) => (fn.r1 = EILSEQ /\ fn.r2 = TRUE)
       /\ (fn.x # EBADR /\ fn.y = EINPROGRESS) => fn.r1 = EILSEQ

\* the unset sentinel has been written over a result in progress
C30_Witness ==
    /\ fn.op = "result_set" /\ fn.x = EINPROGRESS /\ fn.y = EBADR
    /\ fn.r1 = EILSEQ /\ fn.r2 = TRUE

\* header plus payload_size bytes are more than the host device's buffers hold
TooLarge(hd, payload_size) ==
    SizeGt(payload_size, Size(hd.buffer_size_max.lo - HdrSize))

\* the message is as the claim wants an allocated message
MessageFits(hd, m) ==
    /\ m.payload_size.hi = 0
    /\ m.size = HdrSize + m.payload_size.lo
    /\ ~SizeGt(m.buffer, hd.buffer_size_max)

\* C28: the buffer_size_max of every created host device lies between the
\* protocol minimum and maximum; every message of an operation created on
\* it has a size field of header length plus payload length and a total size
\* within buffer_size_max; and asking for a larger request or response
\* yields no operation.
C28_MessageSizeBounded ==
    (fn.op = "create" /\ fn.r1.created)
    => /\ ~SizeGt(Size(GB_OPERATION_MESSAGE_SIZE_MIN), fn.r1.buffer_size_max)
       /\ ~SizeGt(fn.r1.buffer_size_max, Size(GB_OPERATION_MESSAGE_SIZE_MAX))
       /\ (fn.r2.created
           => (MessageFits(fn.r1, fn.r2.request)
               /\ MessageFits(fn.r1, fn.r2.response)))
       /\ ((TooLarge(fn.r1, fn.y) \/ TooLarge(fn.r1, fn.z))
           => ~fn.r2.created)

\* C25: the reference count never goes below zero, so that an operation is
\* destroyed once, and a destroyed operation is neither on the connection's
\* operations list, where gb_operation_find_outgoing would take a reference
\* on it, nor has its work queued or running.
C25_DestroyedOnceAndIdle ==
    \A o \in Ops :
        /\ kref[o] >= 0
        /\ Destroyed(o) => (~OnList(o) /\ ~work_pending[o] /\ wpc[o] = "idle")

\* C26: while the transport holds a message it has accepted and not yet
\* reported as sent, the operation owning the message is not destroyed.
C26_BorrowedMessageNotFreed ==
    \A o \in Ops : urb[o] = "inflight" => ~Destroyed(o)

\* the bytes a request frame declares after its header
DeclaredPayload(w) == [i \in 1..(w.size - HdrSize) |-> w.byte]

\* C21: gb_connection_recv of a whole request frame on an enabled connection,
\* an operation being there to allocate, creates one incoming operation
\* whose id is the frame's, which is unidirectional exactly when the id is 0
\* and whose request holds the declared bytes; with the connection still
\* enabled the operation is then put on the list, active once, its result in
\* progress and its work queued; and the work of an incoming operation is
\* never queued a second time.
C21_RequestCreatesIncoming ==
    [][ /\ (rpc = "idle" /\ rpc' = "request")
           => \A w \in WireFrames :
                  gb_connection_recv(w)
                  => /\ WellFormed(w) /\ ~w.resp
                     /\ \E o \in Ops :
                            /\ rop' = o /\ ~incoming[o] /\ incoming'[o]
                            /\ \A x \in Ops \ {o} : incoming'[x] = incoming[x]
                            /\ id'[o] = w.opid
                            /\ req_opid'[o] = cpu_to_le16(w.opid)
                            /\ inc'[o].unidirectional = (w.opid = 0)
                            /\ inc'[o].type = w.type
                            /\ inc'[o].request.size = w.size
                            /\ inc'[o].request.payload = DeclaredPayload(w)
        /\ (rpc = "request" /\ rpc' = "idle" /\ state = "ENABLED")
           => /\ ~OnList(rop)
              /\ \E i \in 1..Len(operations') : operations'[i] = rop
              /\ active'[rop] = 1
              /\ errno'[rop] = EINPROGRESS
              /\ work_pending'[rop] /\ nqueued'[rop] = 1
        /\ \A o \in Ops : incoming'[o] => nqueued'[o] <= 1
      ]_vars

\* a request with id 1 has become an incoming operation that is on the
\* list, in progress, with its work queued
C21_Witness ==
    \E o \in Ops :
        /\ incoming[o] /\ id[o] = 1 /\ ~inc[o].unidirectional
        /\ inc[o].request.size = HdrSize + RespSize
        /\ OnList(o) /\ active[o] = 1 /\ errno[o] = EINPROGRESS
        /\ work_pending[o] /\ nqueued[o] = 1

\* C22: no response of a unidirectional incoming operation is handed to the
\* transport, and gb_operation_response_send never goes past its
\* unidirectional check for one.
C22_UnidirectionalNeverResponds ==
    \A o \in Ops :
        (incoming[o] /\ inc[o].unidirectional)
        => /\ inc[o].nsend = 0 /\ inc[o].rurb = "none"
           /\ inc[o].pc \in {"idle", "respond", "done"}

\* the handler of a unidirectional request has run, returned an error and
\* allocated a response, and the work is over with nothing sent
C22_Witness ==
    \E o \in Ops :
        /\ incoming[o] /\ inc[o].unidirectional /\ protocol = "handler"
        /\ inc[o].pc = "done" /\ inc[o].status = EINVAL /\ inc[o].handler_alloc
        /\ inc[o].resp.allocated /\ errno[o] = EINVAL
        /\ wpc[o] = "idle" /\ inc[o].nsend = 0

\* gb_operation_response_send has returned for the request of a handler and
\* was not refused by a disabled connection
Responded(o) ==
    /\ incoming[o] /\ ~inc[o].unidirectional /\ protocol = "handler"
    /\ inc[o].pc = "done" /\ inc[o].ret # ENOTCONN

C24_NoHandlerResponds ==
    \A o \in Ops :
        (/\ incoming[o] /\ id[o] # 0 /\ protocol # "handler"
         /\ wpc[o] = "callback" /\ state = "ENABLED")
        => /\ inc[o].nsend = 1
           /\ inc[o].resp.result = GB_OP_PROTOCOL_BAD

\* C31 as stated: when gb_operation_work drops the active count and the
\* reference of an outgoing operation, the callback of that run has not been
\* invoked yet.
C31_PutBeforeCallback ==
    [][\A o \in Ops :
           (~incoming[o] /\ wpc[o] \in {"callback", "put"} /\ wpc'[o] # wpc[o])
           => ncallback[o] < nqueued[o]]_vars

\* C31, amended: gb_operation_work of an outgoing operation invokes the
\* callback first, the active count and the reference untouched by that step,
\* then drops the active count, then the reference.
C31_CallbackBeforePut ==
    [][\A o \in Ops :
           ~incoming[o]
           => /\ ncallback'[o] # ncallback[o]
                 => /\ wpc[o] = "idle" /\ wpc'[o] = "callback"
                    /\ active'[o] = active[o] /\ kref'[o] = kref[o]
              /\ wpc'[o] # wpc[o]
                 => \/ wpc[o] = "idle" /\ wpc'[o] = "callback"
                       /\ ncallback'[o] = ncallback[o] + 1
                    \/ /\ wpc[o] = "callback" /\ wpc'[o] = "put"
                       /\ ncallback[o] >= 1
                       /\ active'[o] = active[o] - 1 /\ kref'[o] = kref[o]
                    \/ /\ wpc[o] = "put" /\ wpc'[o] = "idle"
                       /\ ncallback[o] >= 1
                       /\ active'[o] = active[o] /\ kref'[o] = kref[o] - 1]_vars

\* the work of a sent operation has run to its end: callback, then both puts
C31_Witness ==
    \E o \in Ops :
        /\ ~incoming[o] /\ pc[o] = "sent" /\ ncallback[o] = 1 /\ nqueued[o] = 1
        /\ wpc[o] = "idle" /\ active[o] = 0 /\ ~work_pending[o]

\* C32: an operation is on the connection's operations list, once, exactly
\* when its active count is above zero; it gets onto the list only by the
\* count going from 0 to 1 and off it only by the count going from 1 to 0.
C32_ListedIffActive ==
    [][\A o \in Ops :
           /\ OnList(o) <=> active[o] > 0
           /\ OnList(o)' <=> active'[o] > 0
           /\ Cardinality({i \in 1..Len(operations') : operations'[i] = o}) <= 1
           /\ (~OnList(o) /\ OnList(o)') => (active[o] = 0 /\ active'[o] = 1)
           /\ (OnList(o) /\ ~OnList(o)') => (active[o] = 1 /\ active'[o] = 0)]_vars

\* an operation is on the list with an active count of two: a second
\* gb_operation_get_active has only incremented
C32_Witness ==
    \E o \in Ops :
        /\ active[o] = 2 /\ OnList(o)
        /\ Cardinality({i \in 1..Len(operations) : operations[i] = o}) = 1

\* C33: greybus_message_sent for a response drops one active count and one
\* reference and leaves the result and the work alone, with every status;
\* for a request with status 0 it changes nothing of the operation; with
\* another status it stores that status as the result exactly when the
\* result was in progress, and the work is queued only after that.
C33_MessageSentEffects ==
    [][\A o \in Ops :
           /\ inc'[o].rurb # inc[o].rurb /\ inc[o].rurb = "inflight"
              => /\ \E status \in SendStatuses : ResponseSent(o, status)
                 /\ active'[o] = active[o] - 1 /\ kref'[o] = kref[o] - 1
                 /\ errno' = errno /\ work_pending' = work_pending
                 /\ histvars' = histvars
           /\ urb'[o] # urb[o] /\ urb[o] = "inflight"
              => \A status \in SendStatuses :
                     MessageSent(o, status)
                     => /\ active' = active /\ kref' = kref
                        /\ work_pending' = work_pending /\ nqueued' = nqueued
                        /\ IF status # 0 /\ errno[o] = EINPROGRESS
                           THEN errno'[o] = status /\ urb'[o] = "latched"
                           ELSE errno' = errno /\ urb'[o] = "done"
           /\ urb'[o] # urb[o] /\ urb[o] = "latched"
              => /\ winner[o].by = "sent" /\ errno[o] = winner[o].code
                 /\ work_pending'[o] /\ urb'[o] = "done"
                 /\ errno' = errno /\ active' = active /\ kref' = kref]_vars

\* a response and a request have both been reported sent with an error: the
\* incoming operation is off the list with its handler's result, the
\* outgoing one has the error as its result and its work queued
C33_Witness ==
    \E o \in Ops :
        /\ incoming[o] /\ inc[o].rurb = "sent" /\ active[o] = 0
        /\ errno[o] = inc[o].status
        /\ ~incoming[1] /\ urb[1] = "done" /\ winner[1].by = "sent"
        /\ errno[1] = ENOENT /\ nqueued[1] = 1

\* C34: every gb_operation_cancel call that has been entered returns.
C34_CancelReturns ==
    \A o \in Ops : (cpc[o] # "idle") ~> (cpc[o] = "idle")

\* a cancel call has won the latch, waited for the work to drop the active
\* count, and returned
C34_Witness ==
    /\ ncancels >= 1 /\ cpc[1] = "idle" /\ winner[1].by = "cancel"
    /\ ncallback[1] = 1 /\ active[1] = 0 /\ waiters[1] = 0

\* C35: pad[0] of a message header holds the destination CPort id only
\* while the message is with the transport: it is the packed id after
\* message_send accepted the message, zero after a refused send and when
\* greybus_message_sent or greybus_data_rcvd is called; the received id is
\* the byte of the frame; unpacking a packed id below 256 returns it.
C35_PadOnlyInTransport ==
    /\ (fn.op = "cport_inflight") =>
           (fn.r1 = fn.x /\ gb_message_cport_unpack(fn.r1).cport_id = fn.x)
    /\ (fn.op = "cport_refused") => fn.r1 = 0
    /\ (fn.op = "cport_sent") => (fn.r1 = 0 /\ fn.r2.called /\ fn.r2.pad = 0)
    /\ (fn.op = "cport_rcvd") =>
           (fn.r2.called /\ fn.r2.pad = 0 /\ fn.r2.cport_id = fn.x)
    /\ (fn.op \in {"cport_refused", "cport_dropped"}) => ~fn.r2.called
    /\ \A c \in 0..(CPORT_COUNT - 1) :
           gb_message_cport_unpack(gb_message_cport_pack(c)).cport_id = c

\* the core is handed a received frame that carried a nonzero CPort id
C35_Witness ==
    fn.op = "cport_rcvd" /\ fn.x = 255 /\ fn.r2.called /\ fn.r2.pad = 0

\* C36: under every interleaving of request_send, cancel, response frames,
\* transport completions and dispatcher runs, the active count of an
\* operation never drops below zero and its reference count never drops
\* below zero (no more references are released than were taken).
C36_CountsNeverNegative ==
    \A o \in Ops : active[o] >= 0 /\ kref[o] >= 0

\* C37: gb_operation_cancel is called on an operation whose
\* gb_operation_request_send returned 0; at the step where the call returns
\* the completion callback has been invoked and has finished, and no step
\* invokes the callback of an operation a second time, so it is never
\* invoked after the return.
C37_CallbackDoneAtCancelReturn ==
    [][\A o \in Ops :
           /\ (cpc[o] = "dec" /\ cpc'[o] = "idle") =>
                  (pc[o] = "sent" /\ ncallback[o] >= 1 /\ wpc[o] # "callback"
                   /\ nqueued[o] = ncallback[o] /\ ~work_pending[o])
           /\ (ncallback'[o] # ncallback[o]) =>
                  (ncallback[o] = 0 /\ cpc[o] \notin {"dec"})]_vars

\* a cancel call that lost the latch to a response has returned after the
\* callback ran with the response's result
C37_Witness ==
    /\ ncancels >= 1 /\ cpc[1] = "idle" /\ winner[1].by = "recv"
    /\ pc[1] = "sent" /\ ncallback[1] = 1 /\ wpc[1] # "callback" /\ active[1] = 0

\* C38: every frame gb_connection_recv passes to the request path declares
\* at least the header size, so the request payload size, declared size
\* minus header size, has not wrapped around.
C38_RequestSizeNotNegative ==
    (fn.op = "recv" /\ fn.z = "request") =>
        (fn.y >= HdrSize /\ fn.r2 = Size(fn.y - HdrSize))

\* C39: the result byte of every response message handed to the transport
\* is the wire mapping of the result latched on the incoming operation.
C39_ResultByteIsLatchedResult ==
    \A o \in Ops :
        (incoming[o] /\ inc[o].rurb = "inflight") =>
            inc[o].resp.result = gb_operation_errno_map(errno[o])

\* C40: every step of gb_operation_request_send that increments op_cycle
\* assigns an id different from the id the previous value of the counter
\* gave, the step from 2^32 - 1 to 0 included.
C40_ConsecutiveIdsDiffer ==
    [][\A o \in Ops :
           (op_cycle' # op_cycle /\ id'[o] # id[o]) =>
               (id'[o] = OperationId(op_cycle') /\ id'[o] # OperationId(op_cycle))]_vars

====
